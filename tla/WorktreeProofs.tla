--------------------------- MODULE WorktreeProofs ---------------------------
(***************************************************************************)
(* The worktree of a feature.  What the worker threads of a feature tree   *)
(* keep, for any number of beads, runs and deaths of the scheduler; and    *)
(* what the merge gate guarantees of one command at a time, for every set  *)
(* of changes, clashes and breaks, every cap and every number of commands  *)
(* and kills.  One command at a time is a hypothesis of the theorems about *)
(* the merge gate: the code takes no lock.                                 *)
(***************************************************************************)
EXTENDS Agent, MergeGate, TLAPS

-----------------------------------------------------------------------------
(* The invariant.  In the lock is who looks at the worktree or adds it.    *)
Locked ==
    \A b \in Beads :
        /\ at[b] \in {"add_tree", "protect"} => lock = {b}
        /\ at[b] = "add_tree" => "target" \notin tree
        /\ at[b] = "protect" => "target" \in tree
        /\ at[b] \notin {"idle", "done", "ensure", "add_tree", "protect"} => {"target", "exclude"} \subseteq tree

(* Who answered, and what that cost.                                       *)
Counted ==
    \A b \in Beads :
        /\ at[b] \in {"ensure", "add_tree", "protect", "agent"} => spent[b] = 0
        /\ at[b] = "retry" => spent[b] = 1
        /\ backend = "claude" /\ at[b] \in Committing => cost[b] = spent[b]

(* Where the change of a bead is.                                          *)
Accounted ==
    \A b \in Beads :
        /\ b \in wrote => b \in dirty \cup index \cup committed
        /\ at[b] \in {"diff", "r_diff", "commit", "r_commit"} => b \notin dirty
        /\ at[b] \in {"head", "r_head"} => b \notin dirty \cup index
        /\ at[b] = "done" /\ b \notin passed => b \notin dirty \cup index

OneAtWork == serialize => \A b, o \in Beads : Running(b) /\ Running(o) => b = o

-----------------------------------------------------------------------------
(* Everything but the steps of the threads, for those invariants that look *)
(* at one thread and the tree: a step of another thread leaves at[b].      *)
LEMMA AgentTypes == AgentTypeOK /\ Counted /\ [AgentNext]_agentVars => (AgentTypeOK /\ Counted)'
<1> SUFFICES ASSUME AgentTypeOK, Counted, [AgentNext]_agentVars PROVE (AgentTypeOK /\ Counted)'
  OBVIOUS
<1> USE DEF AgentTypeOK, Counted, NoThread, Committing, Recovering, TreeChanges
<1>1. CASE UNCHANGED agentVars
  BY <1>1 DEF agentVars, treeVars, beadVars
<1>2. CASE KillScheduler
  BY <1>2, AgentAssumption DEF KillScheduler, Running
<1>3. ASSUME NEW b \in Beads, StartBead(b) PROVE (AgentTypeOK /\ Counted)'
  BY <1>3, AgentAssumption DEF StartBead, Go, treeVars
<1>4. ASSUME NEW b \in Beads, LookForTree(b) \/ AddTree(b) \/ ProtectTree(b) \/ TreeFails(b)
      PROVE  (AgentTypeOK /\ Counted)'
  BY <1>4 DEF LookForTree, AddTree, ProtectTree, TreeFails, Go
<1>5. ASSUME NEW b \in Beads, Edit(b) PROVE (AgentTypeOK /\ Counted)'
  BY <1>5 DEF Edit
<1>6. ASSUME NEW b \in Beads, ClaudeAnswers(b) PROVE (AgentTypeOK /\ Counted)'
  BY <1>6 DEF ClaudeAnswers, Call, Result, Go, treeVars
<1>7. ASSUME NEW b \in Beads, RetryAnswers(b) PROVE (AgentTypeOK /\ Counted)'
  BY <1>7 DEF RetryAnswers, Call, Result, Go, treeVars
<1>8. ASSUME NEW b \in Beads, CodexAnswers(b) PROVE (AgentTypeOK /\ Counted)'
  BY <1>8 DEF CodexAnswers, Result, Go, treeVars
<1>9. ASSUME NEW b \in Beads, Recover(b) PROVE (AgentTypeOK /\ Counted)'
  BY <1>9 DEF Recover, Go, treeVars
<1>10. ASSUME NEW b \in Beads, CommitFails(b) PROVE (AgentTypeOK /\ Counted)'
  BY <1>10 DEF CommitFails, Go, treeVars
<1>11. ASSUME NEW b \in Beads, Status(b) \/ Add(b) \/ Diff(b) \/ Commit(b) \/ RevParse(b)
       PROVE  (AgentTypeOK /\ Counted)'
  <2>1. CASE Status(b)
    BY <2>1 DEF Status, Step, GoOn, OnBehalf, Go, treeVars
  <2>2. CASE Add(b)
    BY <2>2 DEF Add, Step, GoOn, OnBehalf, Go
  <2>3. CASE Diff(b)
    BY <2>3 DEF Diff, Step, GoOn, OnBehalf, Go, treeVars
  <2>4. CASE Commit(b)
    BY <2>4 DEF Commit, Step, GoOn, OnBehalf, Go
  <2>5. CASE RevParse(b)
    BY <2>5 DEF RevParse, Step, OnBehalf, Go, treeVars
  <2> QED
    BY <1>11, <2>1, <2>2, <2>3, <2>4, <2>5
<1> QED
  BY <1>1, <1>2, <1>3, <1>4, <1>5, <1>6, <1>7, <1>8, <1>9, <1>10, <1>11 DEF AgentNext, Work

LEMMA LockStep == AgentTypeOK /\ Locked /\ [AgentNext]_agentVars => Locked'
<1> SUFFICES ASSUME AgentTypeOK, Locked, [AgentNext]_agentVars PROVE Locked'
  OBVIOUS
<1> USE DEF AgentTypeOK, Locked, NoThread, Committing, Recovering
<1>1. CASE UNCHANGED agentVars
  BY <1>1 DEF agentVars, treeVars, beadVars
<1>2. CASE KillScheduler
  BY <1>2 DEF KillScheduler, Running
<1>3. ASSUME NEW b \in Beads, StartBead(b) PROVE Locked'
  BY <1>3 DEF StartBead, Go, treeVars
<1>4. ASSUME NEW b \in Beads, LookForTree(b) PROVE Locked'
  BY <1>4 DEF LookForTree, Go
<1>5. ASSUME NEW b \in Beads, AddTree(b) \/ ProtectTree(b) PROVE Locked'
  BY <1>5 DEF AddTree, ProtectTree, Go
<1>6. ASSUME NEW b \in Beads, TreeFails(b) PROVE Locked'
  BY <1>6 DEF TreeFails, Go
<1>7. ASSUME NEW b \in Beads, Edit(b) PROVE Locked'
  BY <1>7 DEF Edit
<1>8. ASSUME NEW b \in Beads, ClaudeAnswers(b) \/ RetryAnswers(b) \/ CodexAnswers(b) PROVE Locked'
  <2>1. at[b] \in {"agent", "retry"} /\ UNCHANGED treeVars
    BY <1>8 DEF ClaudeAnswers, RetryAnswers, CodexAnswers
  <2>2. \E next \in {"idle", "status", "retry", "lost"} : Go(b, next)
    BY <1>8 DEF ClaudeAnswers, RetryAnswers, CodexAnswers, Result
  <2> QED
    BY <2>1, <2>2 DEF Go, treeVars
<1>9. ASSUME NEW b \in Beads, Recover(b) \/ CommitFails(b) PROVE Locked'
  <2>1. CASE Recover(b)
    <3>1. {"target", "exclude"} \subseteq tree
      BY <2>1 DEF Recover
    <3> QED
      BY <2>1, <3>1 DEF Recover, Go, treeVars
  <2>2. CASE CommitFails(b)
    BY <2>2 DEF CommitFails, Go, treeVars
  <2> QED
    BY <1>9, <2>1, <2>2
<1>10. ASSUME NEW b \in Beads, Status(b) \/ Add(b) \/ Diff(b) \/ Commit(b) \/ RevParse(b)
       PROVE  Locked'
  <2>1. at[b] \in Committing \cup Recovering /\ UNCHANGED <<tree, lock>>
    BY <1>10 DEF Status, Add, Diff, Commit, RevParse, Step, OnBehalf, treeVars
  <2>2. \E next \in {"done"} \cup Committing \cup Recovering : Go(b, next)
    BY <1>10 DEF Status, Add, Diff, Commit, RevParse, GoOn, OnBehalf
  <2> QED
    BY <2>1, <2>2 DEF Go
<1> QED
  BY <1>1, <1>2, <1>3, <1>4, <1>5, <1>6, <1>7, <1>8, <1>9, <1>10 DEF AgentNext, Work

LEMMA ChangeStep == AgentTypeOK /\ Accounted /\ [AgentNext]_agentVars => Accounted'
<1> SUFFICES ASSUME AgentTypeOK, Accounted, [AgentNext]_agentVars PROVE Accounted'
  OBVIOUS
<1> USE DEF AgentTypeOK, Accounted, NoThread, Committing, Recovering
<1>1. CASE UNCHANGED agentVars
  BY <1>1 DEF agentVars, treeVars, beadVars
<1>2. CASE KillScheduler
  BY <1>2 DEF KillScheduler, Running
<1>3. ASSUME NEW b \in Beads, StartBead(b) PROVE Accounted'
  BY <1>3 DEF StartBead, Go, treeVars
<1>4. ASSUME NEW b \in Beads, LookForTree(b) \/ AddTree(b) \/ ProtectTree(b) \/ TreeFails(b)
      PROVE  Accounted'
  BY <1>4 DEF LookForTree, AddTree, ProtectTree, TreeFails, Go
<1>5. ASSUME NEW b \in Beads, Edit(b) PROVE Accounted'
  BY <1>5 DEF Edit
<1>6. ASSUME NEW b \in Beads, ClaudeAnswers(b) \/ RetryAnswers(b) \/ CodexAnswers(b) PROVE Accounted'
  <2>1. UNCHANGED <<treeVars, wrote, passed>>
    BY <1>6 DEF ClaudeAnswers, RetryAnswers, CodexAnswers
  <2>2. \E next \in {"idle", "status", "retry", "lost"} : Go(b, next)
    BY <1>6 DEF ClaudeAnswers, RetryAnswers, CodexAnswers, Result
  <2> QED
    BY <2>1, <2>2 DEF Go, treeVars
<1>7. ASSUME NEW b \in Beads, Recover(b) PROVE Accounted'
  BY <1>7 DEF Recover, Go, treeVars
<1>8. ASSUME NEW b \in Beads, CommitFails(b) PROVE Accounted'
  BY <1>8 DEF CommitFails, Go, treeVars
<1>9. ASSUME NEW b \in Beads, Status(b) PROVE Accounted'
  BY <1>9 DEF Status, GoOn, OnBehalf, Go, treeVars
<1>10. ASSUME NEW b \in Beads, Add(b) PROVE Accounted'
  BY <1>10, AgentAssumption DEF Add, GoOn, OnBehalf, Go
<1>11. ASSUME NEW b \in Beads, Diff(b) PROVE Accounted'
  BY <1>11 DEF Diff, Step, GoOn, OnBehalf, Go, treeVars
<1>12. ASSUME NEW b \in Beads, Commit(b) PROVE Accounted'
  BY <1>12 DEF Commit, Step, GoOn, OnBehalf, Go
<1>13. ASSUME NEW b \in Beads, RevParse(b) PROVE Accounted'
  BY <1>13 DEF RevParse, Step, OnBehalf, Go, treeVars
<1> QED
  BY <1>1, <1>2, <1>3, <1>4, <1>5, <1>6, <1>7, <1>8, <1>9, <1>10, <1>11, <1>12, <1>13 DEF AgentNext, Work

LEMMA OneAtWorkStep == AgentTypeOK /\ OneAtWork /\ [AgentNext]_agentVars => OneAtWork'
<1> SUFFICES ASSUME AgentTypeOK, OneAtWork, [AgentNext]_agentVars PROVE OneAtWork'
  OBVIOUS
<1>1. CASE \A b \in Beads : Running(b)' => Running(b)
  <2>1. serialize' = serialize
    BY DEF AgentNext, Work, KillScheduler, StartBead, LookForTree, AddTree, ProtectTree, TreeFails, Edit,
           ClaudeAnswers, RetryAnswers, CodexAnswers, Recover, CommitFails, Status, Add, Diff, Commit,
           RevParse, agentVars
  <2> QED
    BY <1>1, <2>1 DEF OneAtWork
<1>2. ASSUME NEW b \in Beads, StartBead(b) PROVE OneAtWork'
  BY <1>2 DEF StartBead, Go, OneAtWork, Running, AgentTypeOK
<1>3. ASSUME NEW b \in Beads, NEW next, Go(b, next), Running(b) \/ next \in NoThread \cup Recovering
      PROVE  \A o \in Beads : Running(o)' => Running(o)
  BY <1>3 DEF Go, Running, AgentTypeOK
<1> USE DEF NoThread, Committing, Recovering
<1>4. ASSUME NEW b \in Beads, LookForTree(b) \/ AddTree(b) \/ ProtectTree(b) \/ TreeFails(b)
      PROVE  \A o \in Beads : Running(o)' => Running(o)
  <2>1. Running(b) /\ \E next : Go(b, next)
    BY <1>4 DEF LookForTree, AddTree, ProtectTree, TreeFails, Running
  <2> QED
    BY <1>3, <2>1
<1>5. ASSUME NEW b \in Beads, ClaudeAnswers(b) \/ RetryAnswers(b) \/ CodexAnswers(b)
      PROVE  \A o \in Beads : Running(o)' => Running(o)
  <2>1. Running(b) /\ \E next : Go(b, next)
    BY <1>5 DEF ClaudeAnswers, RetryAnswers, CodexAnswers, Result, Running
  <2> QED
    BY <1>3, <2>1
<1>6. ASSUME NEW b \in Beads, Recover(b) \/ CommitFails(b)
      PROVE  \A o \in Beads : Running(o)' => Running(o)
  <2>1. \E next \in NoThread \cup Recovering : Go(b, next)
    BY <1>6 DEF Recover, CommitFails
  <2> QED
    BY <1>3, <2>1
<1>7. ASSUME NEW b \in Beads, Status(b) \/ Add(b) \/ Diff(b) \/ Commit(b) \/ RevParse(b)
      PROVE  \A o \in Beads : Running(o)' => Running(o)
  <2>1. at[b] \in Committing \cup Recovering
    BY <1>7 DEF Status, Add, Diff, Commit, RevParse, Step, OnBehalf
  <2>2. \E next : Go(b, next) /\ (at[b] \in Recovering => next \in NoThread \cup Recovering)
    BY <1>7 DEF Status, Add, Diff, Commit, RevParse, GoOn, OnBehalf
  <2> QED
    BY <1>3, <2>1, <2>2 DEF Running
<1>8. KillScheduler \/ (UNCHANGED agentVars) => \A o \in Beads : Running(o)' => Running(o)
  BY DEF KillScheduler, Running, agentVars, beadVars
<1>9. ASSUME NEW b \in Beads, Edit(b) PROVE \A o \in Beads : Running(o)' => Running(o)
  BY <1>9 DEF Edit, Running
<1> QED
  BY <1>1, <1>2, <1>4, <1>5, <1>6, <1>7, <1>8, <1>9 DEF AgentNext, Work

-----------------------------------------------------------------------------
AInv == AgentTypeOK /\ Counted /\ Locked /\ Accounted /\ OneAtWork

LEMMA AgentInitially == AgentInit => AInv
  BY AgentAssumption DEF AgentInit, AInv, AgentTypeOK, Counted, Locked, Accounted, OneAtWork, Running, NoThread,
                         Committing, Recovering, TreeChanges

LEMMA AgentInvariant == AgentSpec => []AInv
<1>1. AInv /\ [AgentNext]_agentVars => AInv'
  BY AgentTypes, LockStep, ChangeStep, OneAtWorkStep DEF AInv
<1> QED
  BY <1>1, AgentInitially, PTL DEF AgentSpec

(* Every variable keeps its type.                                          *)
THEOREM AgentTypeCorrect == AgentSpec => []AgentTypeOK
<1>1. AInv => AgentTypeOK
  BY DEF AInv
<1> QED
  BY <1>1, AgentInvariant, PTL

(* The lock of the tree makes its worktree once, and no agent starts       *)
(* before it is ready (gitutils.py: ensure_worktree).                      *)
THEOREM WorktreesReady == AgentSpec => []WorktreeReady
<1>1. AInv => WorktreeReady
  BY DEF AInv, Locked, WorktreeReady, NoThread
<1> QED
  BY <1>1, AgentInvariant, PTL

(* No change of a done bead is left out of the branch, except one that was *)
(* recovered past a GitError (gitutils.py: commit_all, finalize.py).       *)
THEOREM WorkCommitted == AgentSpec => []WorkIsCommitted
<1>1. AInv => WorkIsCommitted
  BY DEF AInv, AgentTypeOK, Accounted, WorkIsCommitted
<1> QED
  BY <1>1, AgentInvariant, PTL

(* The telemetry of a result counts the calls of its run (runner.py).      *)
THEOREM CostsAddUp == AgentSpec => []CostIsTotal
<1>1. AInv => CostIsTotal
  BY DEF AInv, Counted, CostIsTotal
<1> QED
  BY <1>1, AgentInvariant, PTL

(* No serialized bead commits the half-done work of another one.           *)
THEOREM HalfDoneUncommitted == AgentSpec => HalfDoneStays
<1> DEFINE Half == \A b \in Beads : serialize /\ at[b] = "commit" /\ at'[b] = "head" =>
                      \A o \in wrote : at[o] = "agent" => o \notin committed' \ committed
<1>1. AInv => Half
  BY DEF AInv, AgentTypeOK, OneAtWork, Running, NoThread, Recovering
<1> QED
  BY <1>1, AgentInvariant, PTL DEF HalfDoneStays

-----------------------------------------------------------------------------
(* The merge gate.                                                         *)
OneMerger == \A p, q \in Mergers : p = q

(* Past its check, the command knows that no merge-conflict bead waits, so *)
(* that none is finished; before it makes one, that the cap allows it.     *)
PastCheck == Steps \ {"idle", "check"}
Unblocked(p) == pc[p] \in PastCheck => pending = 0
Room(p) == pc[p] = "emit" => pending + resolved < MaxAttempts

(* After a preflight the worktree is there and in no merge, and the branch *)
(* contains what main did; after the tests, it is what they passed but for *)
(* the changes of other beads.                                             *)
Unmerging(p) ==
    "rebase" \notin skip[p] =>
        /\ pc[p] \in {"tests", "cap", "emit", "merge", "settle"} => worktree = "clean"
        /\ pc[p] \in {"resolve", "abort"} => worktree # "gone"
Reviewed(p) ==
    pc[p] \in {"tests", "merge", "settle"} /\ "rebase" \notin skip[p] => base[p] \subseteq branch
Passed(p) ==
    pc[p] \in {"merge", "settle"} /\ Gated(p) =>
        /\ branch \ others[p] = tested[p] \ others[p]
        /\ others[p] = {} => ~Broken(branch)

MInv ==
    /\ TypeOK /\ ConflictBeadCap
    /\ \A p \in Mergers : Unblocked(p) /\ Room(p) /\ Unmerging(p) /\ Reviewed(p) /\ Passed(p)

-----------------------------------------------------------------------------
(* Initially no command runs.                                              *)
LEMMA MergeInit == Init => MInv
BY MergeAssumption
DEF Init, MInv, TypeOK, ConflictBeadCap, Unblocked, Room, Unmerging, Reviewed, Passed, Gated, PastCheck, Steps, Changes

(* The types alone, step by step of the command.                           *)
LEMMA MergeTypes == TypeOK /\ [Next]_vars => TypeOK'
<1> SUFFICES ASSUME TypeOK, [Next]_vars PROVE TypeOK'
  OBVIOUS
<1> USE DEF TypeOK, Steps, Goto, End, On, feature, checkout, beads, command, locals
<1>1. ASSUME NEW p \in Mergers, StartMerge(p) PROVE TypeOK'
  BY <1>1 DEF StartMerge
<1>2. ASSUME NEW p \in Mergers, CheckConflictBeads(p) PROVE TypeOK'
  BY <1>2 DEF CheckConflictBeads
<1>3. ASSUME NEW p \in Mergers, SkipPreflight(p) PROVE TypeOK'
  BY <1>3 DEF SkipPreflight
<1>4. ASSUME NEW p \in Mergers, Preflight(p) PROVE TypeOK'
  BY <1>4 DEF Preflight
<1>18. ASSUME NEW p \in Mergers, PreflightRefused(p) PROVE TypeOK'
  BY <1>18 DEF PreflightRefused
<1>16. ASSUME NEW p \in Mergers, ResolveState(p) PROVE TypeOK'
  BY <1>16 DEF ResolveState
<1>17. ASSUME NEW p \in Mergers, SettleState(p) PROVE TypeOK'
  BY <1>17 DEF SettleState
<1>5. ASSUME NEW p \in Mergers, AbortMerge(p) PROVE TypeOK'
  BY <1>5 DEF AbortMerge
<1>6. ASSUME NEW p \in Mergers, SkipTests(p) PROVE TypeOK'
  BY <1>6 DEF SkipTests
<1>7. ASSUME NEW p \in Mergers, TestGate(p) PROVE TypeOK'
  <2>1. Uncommitted \subseteq Changes
    BY DEF Uncommitted, Changes
  <2>2. PICK content \in SUBSET Changes, edits \in SUBSET Changes :
            others' = [others EXCEPT ![p] = edits] /\ Tested(p, content)
    <3>1. CASE worktree = "gone"
      BY <1>7, <3>1 DEF TestGate
    <3>2. CASE worktree # "gone"
      <4>1. PICK edits \in SUBSET Uncommitted :
                others' = [others EXCEPT ![p] = edits] /\ Tested(p, branch \cup edits)
        BY <1>7, <3>2 DEF TestGate
      <4>2. branch \cup edits \in SUBSET Changes /\ edits \in SUBSET Changes
        BY <2>1
      <4> QED
        BY <4>1, <4>2
    <3> QED
      BY <3>1, <3>2
  <2>3. UNCHANGED <<feature, checkout, beads, skip, base, merges, kills>>
    BY <1>7 DEF TestGate
  <2> QED
    BY <2>2, <2>3 DEF Tested
<1>8. ASSUME NEW p \in Mergers, CheckCap(p) PROVE TypeOK'
  BY <1>8 DEF CheckCap
<1>9. ASSUME NEW p \in Mergers, EmitConflictBead(p) PROVE TypeOK'
  BY <1>9 DEF EmitConflictBead
<1>10. ASSUME NEW p \in Mergers, MergeBranch(p) PROVE TypeOK'
  BY <1>10 DEF MergeBranch
<1>11. ASSUME NEW p \in Mergers, Kill(p) PROVE TypeOK'
  BY <1>11 DEF Kill
<1>20. ASSUME NEW work \in SUBSET Changes, CommitAll(work)
       PROVE  /\ branch' \in SUBSET Changes /\ worktree' \in {"clean", "merging", "gone"}
              /\ others' \in [Mergers -> SUBSET Changes]
  BY <1>20 DEF CommitAll
<1>12. CASE ResolveConflict
  <2>1. PICK merged \in {{}, IF worktree = "merging" THEN theirs ELSE main}, work \in SUBSET (Fixes \cup Uncommitted) :
            CommitAll(merged \cup work)
    BY <1>12 DEF ResolveConflict
  <2>2. merged \cup work \in SUBSET Changes
    BY DEF Changes, Uncommitted
  <2>3. pending' \in Nat /\ resolved' \in Nat /\ open' \in Nat
    BY <1>12 DEF ResolveConflict
  <2>4. /\ branch' \in SUBSET Changes /\ worktree' \in {"clean", "merging", "gone"}
        /\ others' \in [Mergers -> SUBSET Changes]
    BY <1>20, <2>1, <2>2
  <2> QED
    BY <1>12, <2>3, <2>4 DEF ResolveConflict
<1>19. CASE FollowupCommits
  <2>1. PICK work \in SUBSET LateWork : CommitAll(work \cup IF worktree = "merging" THEN theirs ELSE {})
    BY <1>19 DEF FollowupCommits
  <2>2. (work \cup IF worktree = "merging" THEN theirs ELSE {}) \in SUBSET Changes
    BY DEF Changes
  <2>3. /\ branch' \in SUBSET Changes /\ worktree' \in {"clean", "merging", "gone"}
        /\ others' \in [Mergers -> SUBSET Changes]
    BY <1>20, <2>1, <2>2
  <2>4. open' \in Nat
    BY <1>19 DEF FollowupCommits
  <2> QED
    BY <1>19, <2>3, <2>4 DEF FollowupCommits
<1>13. CASE MainAdvances
  BY <1>13 DEF MainAdvances, Changes
<1>14. CASE RootAborted
  BY <1>14 DEF RootAborted
<1>15. CASE UNCHANGED vars
  BY <1>15 DEF vars
<1> QED
  BY <1>1, <1>2, <1>3, <1>4, <1>5, <1>6, <1>7, <1>8, <1>9, <1>10, <1>11, <1>12, <1>13, <1>14, <1>15, <1>16, <1>17, <1>18, <1>19
  DEF Next, Command, Rest

(* A step of the only command keeps the invariant.                         *)
LEMMA CommandStep ==
    ASSUME OneMerger, MInv, NEW p \in Mergers,
           StartMerge(p) \/ Command(p) \/ Kill(p), TypeOK'
    PROVE  MInv'
<1> USE DEF MInv, TypeOK, Goto, End, On, feature, checkout, beads, command, locals, PastCheck, Steps
<1>0. \A q \in Mergers : q = p
  BY DEF OneMerger
<1> SUFFICES ConflictBeadCap' /\ Unblocked(p)' /\ Room(p)' /\ Unmerging(p)' /\ Reviewed(p)' /\ Passed(p)'
  BY <1>0
<1>a. ConflictBeadCap /\ Unblocked(p) /\ Room(p) /\ Unmerging(p) /\ Reviewed(p) /\ Passed(p)
  OBVIOUS
<1> USE DEF ConflictBeadCap, Unblocked, Room, Unmerging, Reviewed, Passed, Gated
<1>1. CASE StartMerge(p)
  BY <1>1, <1>a DEF StartMerge
<1>2. CASE CheckConflictBeads(p)
  BY <1>2, <1>a DEF CheckConflictBeads
<1>3. CASE SkipPreflight(p)
  BY <1>3, <1>a DEF SkipPreflight, SkipsPreflight
<1>4. CASE Preflight(p)
  BY <1>4, <1>a DEF Preflight, SkipsPreflight
<1>5. CASE AbortMerge(p)
  BY <1>5, <1>a DEF AbortMerge
<1>6. CASE SkipTests(p)
  BY <1>6, <1>a DEF SkipTests
<1>14. CASE PreflightRefused(p)
  BY <1>14, <1>a DEF PreflightRefused, SkipsPreflight
<1>7. CASE TestGate(p)
  <2>1. CASE worktree = "gone"
    BY <1>7, <1>a, <2>1 DEF TestGate, Tested
  <2>2. CASE worktree # "gone"
    <3>1. PICK edits \in SUBSET Uncommitted :
              others' = [others EXCEPT ![p] = edits] /\ Tested(p, branch \cup edits)
      BY <1>7, <2>2 DEF TestGate
    <3>2. UNCHANGED <<feature, checkout, beads, skip, base, merges, kills>> /\ pc[p] = "tests"
      BY <1>7 DEF TestGate
    <3>3. tested'[p] = branch \cup edits /\ others'[p] = edits
      BY <3>1 DEF Tested
    <3>4. pc'[p] = "cap" \/ (pc'[p] = "merge" /\ ~Broken(branch \cup edits))
      BY <3>1 DEF Tested
    <3>5. Passed(p)'
      <4>1. branch' \ others'[p] = tested'[p] \ others'[p]
        BY <3>2, <3>3
      <4>2. pc'[p] = "merge" /\ others'[p] = {} => branch \cup edits = branch' /\ ~Broken(branch \cup edits)
        BY <3>2, <3>3, <3>4
      <4>3. pc'[p] = "merge" /\ others'[p] = {} => ~Broken(branch')
        BY <4>2
      <4>4. pc'[p] # "settle"
        BY <3>4
      <4> QED
        BY <4>1, <4>3, <4>4 DEF Broken
    <3> QED
      BY <1>a, <3>2, <3>4, <3>5
  <2> QED
    BY <2>1, <2>2
<1>8. CASE CheckCap(p)
  BY <1>8, <1>a, MergeAssumption DEF CheckCap
<1>9. CASE EmitConflictBead(p)
  BY <1>9, <1>a, MergeAssumption DEF EmitConflictBead
<1>10. CASE MergeBranch(p)
  BY <1>10, <1>a DEF MergeBranch
<1>12. CASE ResolveState(p)
  BY <1>12, <1>a DEF ResolveState
<1>13. CASE SettleState(p)
  BY <1>13, <1>a DEF SettleState
<1>11. CASE Kill(p)
  BY <1>11, <1>a DEF Kill
<1> QED
  BY <1>1, <1>2, <1>3, <1>4, <1>5, <1>6, <1>7, <1>8, <1>9, <1>10, <1>11, <1>12, <1>13, <1>14 DEF Command

(* So does everybody else: a resolver only finishes a bead that the        *)
(* command, past its check, knows not to exist, and what any other bead    *)
(* commits after the tests is noted.                                       *)
LEMMA OtherStep ==
    ASSUME MInv, ResolveConflict \/ FollowupCommits \/ MainAdvances \/ RootAborted \/ UNCHANGED vars, TypeOK'
    PROVE  MInv'
<1> USE DEF MInv, TypeOK, feature, checkout, beads, command, locals, PastCheck, Steps, ConflictBeadCap, Unblocked, Room, Unmerging, Reviewed, Passed, Gated
<1>1. CASE ResolveConflict
  <2>1. \A p \in Mergers : pc'[p] \notin PastCheck
    BY <1>1 DEF ResolveConflict
  <2>2. pending' + resolved' = pending + resolved
    BY <1>1 DEF ResolveConflict
  <2> QED
    BY <2>1, <2>2, <1>1 DEF ResolveConflict
<1>5. CASE FollowupCommits
  <2>1. PICK work : CommitAll(work)
    BY <1>5 DEF FollowupCommits
  <2>2. UNCHANGED <<theirs, checkout, beads, pc, skip, base, tested, merges, kills>>
    BY <1>5 DEF FollowupCommits
  <2>3. branch' = branch \cup work /\ worktree' = "clean"
    BY <2>1 DEF CommitAll
  <2>4. ASSUME NEW p \in Mergers PROVE Unblocked(p)' /\ Room(p)' /\ Unmerging(p)' /\ Reviewed(p)'
    BY <2>2, <2>3
  <2>5. ASSUME NEW p \in Mergers PROVE Passed(p)'
    <3> SUFFICES ASSUME pc[p] \in {"merge", "settle"}, Gated(p)
                 PROVE  /\ branch' \ others'[p] = tested'[p] \ others'[p]
                        /\ others'[p] = {} => ~Broken(branch')
      BY <2>2 DEF Broken
    <3>1. others'[p] = others[p] \cup (work \ branch)
      BY <2>1 DEF CommitAll
    <3>2. branch \ others[p] = tested[p] \ others[p] /\ (others[p] = {} => ~Broken(branch))
      BY DEF Passed
    <3>3. branch' \ others'[p] = tested[p] \ others'[p]
      BY <2>3, <3>1, <3>2
    <3>4. others'[p] = {} => others[p] = {} /\ branch' = branch
      BY <2>3, <3>1
    <3> QED
      BY <2>2, <3>2, <3>3, <3>4
  <2> QED
    BY <2>2, <2>4, <2>5
<1>2. CASE MainAdvances
  BY <1>2 DEF MainAdvances, Broken
<1>3. CASE RootAborted
  BY <1>3 DEF RootAborted, Broken
<1>4. CASE UNCHANGED vars
  BY <1>4 DEF vars, Broken
<1> QED
  BY <1>1, <1>2, <1>3, <1>4, <1>5

(* The invariant is inductive.                                             *)
LEMMA MergeStep == ASSUME OneMerger PROVE MInv /\ [Next]_vars => MInv'
<1> SUFFICES ASSUME MInv, [Next]_vars PROVE MInv'
  OBVIOUS
<1>1. TypeOK'
  BY MergeTypes DEF MInv
<1>2. ASSUME NEW p \in Mergers, StartMerge(p) \/ Command(p) \/ Kill(p) PROVE MInv'
  BY <1>1, <1>2, CommandStep
<1>3. CASE ResolveConflict \/ FollowupCommits \/ MainAdvances \/ RootAborted \/ UNCHANGED vars
  BY <1>1, <1>3, OtherStep
<1> QED
  BY <1>2, <1>3 DEF Next, Rest

(* The invariant holds of every behaviour of one command at a time.        *)
LEMMA MergeInvariant == ASSUME OneMerger PROVE Spec => []MInv
BY MergeInit, MergeStep, PTL DEF Spec

-----------------------------------------------------------------------------
(* A feature never gets more merge-conflict beads than the cap: between    *)
(* counting and creating one, the only command creates no other, and       *)
(* finishing one does not change how many there are.                       *)
THEOREM ConflictBeadsCapped == ASSUME OneMerger PROVE Spec => []ConflictBeadCap
<1>1. MInv => ConflictBeadCap
  BY DEF MInv
<1> QED
  BY <1>1, MergeInvariant, PTL

(* What lands is what was tested, but for changes of beads that were still *)
(* open, if nothing was skipped, main did not advance since the preflight, *)
(* and the merge is of the branch as it is.                                *)
THEOREM LandingTested == ASSUME OneMerger PROVE Spec => LandsWhatWasTested
<1>1. ASSUME MInv, [Next]_vars, NEW p \in Mergers, Lands(p), Gated(p), main = base[p], Current(p)
      PROVE  main' \ others[p] = tested[p] \ others[p] /\ (others[p] = {} => ~Broken(main'))
  <2>1. /\ branch \ others[p] = tested[p] \ others[p] /\ (others[p] = {} => ~Broken(branch))
        /\ base[p] \subseteq branch
    BY <1>1 DEF MInv, Passed, Reviewed, Lands, Gated
  <2>2. MergeBranch(p) \/ SettleState(p)
    <3>1. main' # main /\ pc' # pc
      BY <1>1 DEF Lands, MInv, TypeOK
    <3>2. ~ResolveConflict /\ ~FollowupCommits /\ ~MainAdvances /\ ~RootAborted /\ ~UNCHANGED vars
      BY <3>1 DEF ResolveConflict, FollowupCommits, MainAdvances, RootAborted, vars, command
    <3>3. \A q \in Mergers : ~StartMerge(q) /\ ~Kill(q) /\ (Command(q) => MergeBranch(q) \/ SettleState(q))
      BY <3>1 DEF StartMerge, Kill, checkout, feature, Command, CheckConflictBeads, SkipPreflight, Preflight, PreflightRefused, ResolveState,
                  AbortMerge, SkipTests, TestGate, CheckCap, EmitConflictBead
    <3> QED
      BY <1>1, <3>2, <3>3 DEF Next, Rest, OneMerger
  <2>3. main' = main \cup branch
    BY <1>1, <2>2 DEF MergeBranch, SettleState, Lands, Current
  <2> QED
    BY <1>1, <2>1, <2>3
<1>2. MInv /\ [Next]_vars => [\A p \in Mergers : Lands(p) /\ Gated(p) /\ main = base[p] /\ Current(p)
                                 => /\ main' \ others[p] = tested[p] \ others[p]
                                    /\ others[p] = {} => ~Broken(main')]_vars
  BY <1>1
<1> QED
  BY <1>2, MergeInvariant, PTL DEF Spec, LandsWhatWasTested

(* Nothing lands while a merge-conflict bead waits.                        *)
THEOREM LandingUnblocked == ASSUME OneMerger PROVE Spec => BlockedUntilResolved
<1>1. MInv /\ [Next]_vars => [(\E p \in Mergers : Lands(p)) => pending = 0]_vars
  BY DEF MInv, Unblocked, Lands, PastCheck, Steps
<1> QED
  BY <1>1, MergeInvariant, PTL DEF Spec, BlockedUntilResolved

(* The final merge of the branch as it is raises only if the preflight was *)
(* skipped or main advanced after it: otherwise the branch contains all of *)
(* main, and a clash takes two changes.                                    *)
THEOREM ConflictsFound == ASSUME OneMerger PROVE Spec => PreflightFindsConflicts
<1>1. ASSUME MInv, [Next]_vars, NEW p \in Mergers, Raises(p), Current(p),
             "rebase" \notin skip[p], main = base[p]
      PROVE  FALSE
  <2>1. main \subseteq incoming
    BY <1>1 DEF MInv, Reviewed, Raises, Current
  <2>2. Resolvable(main, incoming)
    BY <2>1 DEF Resolvable, Clashes
  <2>3. SettleState(p)
    <3>1. pc' # pc /\ kills' = kills /\ pc[p] = "settle" /\ pc'[p] # "settle"
      BY <1>1 DEF Raises, MInv, TypeOK
    <3>2. ~ResolveConflict /\ ~FollowupCommits /\ ~MainAdvances /\ ~RootAborted /\ ~UNCHANGED vars
      BY <3>1 DEF ResolveConflict, FollowupCommits, MainAdvances, RootAborted, vars, command
    <3>3. kills \in Nat
      BY <1>1 DEF MInv, TypeOK
    <3>4. ~StartMerge(p) /\ ~Kill(p) /\ (Command(p) => SettleState(p))
      BY <3>1, <3>3 DEF StartMerge, Kill, Command, CheckConflictBeads, SkipPreflight, Preflight, PreflightRefused, ResolveState, AbortMerge,
                        SkipTests, TestGate, CheckCap, EmitConflictBead, MergeBranch
    <3> QED
      BY <1>1, <3>2, <3>4 DEF Next, Rest, OneMerger
  <2> QED
    BY <1>1, <2>2, <2>3 DEF SettleState, Raises
<1>2. MInv /\ [Next]_vars => [\A p \in Mergers : Raises(p) /\ Current(p)
                                 => "rebase" \in skip[p] \/ main # base[p]]_vars
  BY <1>1
<1> QED
  BY <1>2, MergeInvariant, PTL DEF Spec, PreflightFindsConflicts

(* Unless it skipped the preflight, a command makes its merge-conflict     *)
(* bead when the worktree is out of any merge, also after kills.           *)
THEOREM ResolverClean == ASSUME OneMerger PROVE Spec => CleanForResolver
<1>1. ASSUME MInv, [Next]_vars, pending' > pending
      PROVE  worktree # "merging" \/ \E p \in Mergers : pc[p] = "emit" /\ "rebase" \in skip[p]
  <2>1. pending \in Nat
    BY <1>1 DEF MInv, TypeOK
  <2>2. ~ResolveConflict /\ ~FollowupCommits /\ ~MainAdvances /\ ~RootAborted /\ ~UNCHANGED vars
    BY <1>1, <2>1 DEF ResolveConflict, FollowupCommits, MainAdvances, RootAborted, vars, beads
  <2>3. \A p \in Mergers : ~StartMerge(p) /\ ~Kill(p) /\ (Command(p) => EmitConflictBead(p))
    BY <1>1, <2>1 DEF StartMerge, Kill, Command, CheckConflictBeads, SkipPreflight, Preflight, PreflightRefused, ResolveState, AbortMerge, SkipTests, TestGate, CheckCap, MergeBranch, SettleState, beads
  <2>4. PICK p \in Mergers : EmitConflictBead(p)
    BY <1>1, <2>2, <2>3 DEF Next, Rest
  <2> QED
    BY <1>1, <2>4 DEF EmitConflictBead, MInv, Unmerging
<1>2. MInv /\ [Next]_vars => [pending' > pending
          => worktree # "merging" \/ \E p \in Mergers : pc[p] = "emit" /\ "rebase" \in skip[p]]_vars
  BY <1>1
<1> QED
  BY <1>2, MergeInvariant, PTL DEF Spec, CleanForResolver

-----------------------------------------------------------------------------
(* Every variable keeps its type, of any number of commands at a time.     *)
THEOREM MergeTypeCorrect == Spec => []TypeOK
<1>1. Init => TypeOK
  BY MergeInit DEF MInv
<1> QED
  BY <1>1, MergeTypes, PTL DEF Spec
=============================================================================
