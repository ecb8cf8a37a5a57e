# Verification of agent-takt

agent-takt runs coding agents on *beads* (work items kept as JSON files under
`.takt/beads`): a scheduler picks ready beads, gives each to an agent in a Git
worktree, and turns what the agent answers into the next state of the bead and
into further beads (tester, documentation and review followups, correctives,
recoveries).  Around it are a planner, commands for operators, a merge gate, a
terminal UI, a fleet of projects, a memory, and tools that keep files up to
date.  This directory holds TLA+ models of that program, TLC instances that
check them, and theorems about them checked by TLAPS.

All paths below are relative to the root of the repository, and the package is
`src/agent_takt`.

## 1. The system

| Component | State it keeps | Operations | Talks to |
| --- | --- | --- | --- |
| Bead store (`storage.py`, `models.py`) | one JSON file per bead, overwritten whole | `create_bead`, `save_bead`, `load_bead`, `list_beads`, `ready_beads`, `active_beads`, child id allocation, `delete_bead`; each write is committed | everybody; there is no lock and no version check |
| Scheduler loop (`scheduler/core.py`, `cli/commands/run.py`) | ids started and deferred in this cycle, futures in flight | lease expiry, re-evaluation of blocked beads, fill passes, dispatch, waiting | store, executor threads |
| Scope conflicts (`scheduler/core.py` 358-484) | none | `_beads_conflict`, `_scopes_overlap`, `_globs_overlap` | called in every fill pass |
| Bead execution (`scheduler/execution.py`) | the `Bead` object of its thread | `process`: scope, lease, worktree, feature root's record, agent call | store, git, runner, finalizer |
| Bead finalization (`scheduler/finalize.py`) | the same object | `finalize`: verdicts, commit, failure, recovery creation and completion | store, git, followups |
| Followups and correctives (`scheduler/followups.py`) | none | create or synchronize followups, create correctives, requeue the parent, escalate | store |
| Operators (`cli/services.py`, `cli/commands/*`) | none | retry, status changes, create, update, label, delete | store, from another process |
| Planning (`planner.py`) | none | `persist_plan`: write a tree of beads, dependencies in a second pass | store |
| Merge gate (`cli/commands/merge.py`, `gitutils.py`) | none of its own; git and conflict beads | preflight merge, test gate, conflict beads and their cap, merge | store, git |
| Worktrees (`gitutils.py`) | one worktree, index and branch per feature root | `ensure_worktree`, `commit_all`, merges | git |
| Runners (`runner.py`, prompts, skills) | none | call the agent with a timeout, parse its answer, ask once more for its form | subprocess |
| TUI (`tui/`) | a cache of rows, selection, pending confirmations, offsets into the event log | keys to actions, a timer | store, event log |
| Fleet (`agent_takt_fleet/`) | registry file, run records, tailer threads | register, fan-out over projects, runs show, watch | one takt process per project |
| Memory (`memory.py`) | a SQLite database per project | add, ingest, search, delete | agents |
| Onboarding and upgrade (`onboarding/`, `cli/commands/init.py`, `misc.py`) | asset manifest with hashes | init, upgrade, asset mark-owned | the user's files |
| Specs tool (`_data/.../spec.py`) | spec files in a folder per status | init, create, set, migrate, remove | agents |
| Configuration, output, telemetry | settings | - | - |

The interactions that matter are all through files.  A worker thread holds the
`Bead` object it was dispatched with and saves it several times; the main
thread saves records of the lists it took; the followup code saves records of
a list taken before it created anything; operators save from other processes.
Every save overwrites the whole file, so what a thread writes is as old as
what it read.  That is where the behaviour is hard: stale copies, decisions
made from a read that others invalidate, several saves of which a crash leaves
a prefix, and a loop fed by the work it produces.  The fleet's registry, the
manifest, the memory and the specs are kept the same way.

What each component must keep right:

* **Scope conflicts and dispatch**: beads that share a worktree do not work on
  the same files; with `serialize_within_feature_tree` no two mutating beads
  of a tree run at all; no bead is dispatched twice; nothing starts before what
  it depends on is done.
* **Leases**: what is recorded in progress can always be returned to the queue
  after a crash; a run that ends leaves no lease.
* **Correctives**: at most one open per bead, never more than the budget, each
  one buys one retry, a human is asked when the budget is spent.
* **Followups and recoveries**: every completed developer bead has its tester,
  documentation and review; a finished recovery finishes what it recovers.
* **Statuses**: a bead moves as its life allows, only its worker moves it while
  it is worked on, done is final.
* **The loop**: a run comes to rest.
* **The graph of beads**: a dependency names a bead that exists; what a plan
  puts later starts later.
* **Worktrees**: threads agree on one worktree per tree; what a done bead wrote
  is committed, and nobody commits what another has half done.
* **Runners**: what an answer costs is what was paid for it.
* **Merge gate**: what lands is what the gate passed; conflict beads are bounded.
* **TUI**: a confirmation acts on what the operator sees; the log shows what
  happened, once and in order.
* **Fleet**: a project is registered once; a finished record is final and
  complete; viewers print exactly what the files say.
* **Memory**: an ingest drops no sentence on the way to a chunk and no chunk
  unlike every entry, a search finds the nearest.
* **Upgrade**: no edit of the user's is lost (of the config, no setting), and
  what is not edited becomes what the release ships.
* **Specs**: setting the status brings file, folder and status together.

## 2. Modules

| Module | Models |
| --- | --- |
| `Scopes` | the conflict rules as operators on scope records |
| `BeadStore` | bead records, what the store is asked, child ids, the decision on a blocked bead, the records the code creates |
| `BeadLifecycle` | abstract specification: the life of a bead, and who may move it |
| `Scheduler` | one scheduler process: main thread, workers, operators, crash |
| `SchedulerProperties` | its properties, and the refinement of `BeadLifecycle` |
| `Agent` | the worker threads of one feature tree: worktree, agent CLI, retry of the answer, commit |
| `MergeGate` | `takt merge` of one feature |
| `BeadGraph` | plan, create, update, delete and a scheduler as editors of the graph of beads |
| `Tui`, `TuiLog` | rows, selection, confirmations and writes; the event log and its panel |
| `Fleet`, `FleetWatch` | registry, run and dispatch, run records and their viewer; the tailers of watch |
| `Memory` | add, chunking and ingest, search, delete |
| `Upgrade` | init, upgrade, asset, and the user's edits |
| `Specs` | the commands of `spec.py` |
| `MCScheduler`, `MCWorktrees`, `MCFleet`, `MCTui`, `MCFiles`, `MCUpgrade` | instances for TLC |
| `SchedulerProofs`, `SharingProofs`, `SerialProofs` | proofs about the scheduler; the last two, about beads that share a worktree and about one worker, are on top of the first |
| `WorktreeProofs`, `GraphProofs`, `FleetProofs`, `TuiProofs`, `FilesProofs` | proofs about the other components; those of `Upgrade` are in `FleetProofs`, those of `Memory` and `Specs` in `FilesProofs` |

`Scheduler` extends `BeadStore`, which extends `Scopes`; `SchedulerProperties`
instantiates `BeadLifecycle` under the refinement mapping *status of a bead =
status in its file, held = beads with a worker*.  `Tui` extends `TuiLog`.  The
other modules meet the scheduler only through what their header says: the
scheduler appears in `Tui` and `BeadGraph` as the actions that change beads
under them, and in `Agent` as what starts beads and dies; `Agent` and
`MergeGate` follow each other on one worktree (`MCWorktrees`).  Components
that share nothing are checked by one run where that is said: `MCFleet`,
`MCFiles` and `MCWorktrees` are sums, in which a behaviour is of one part.

Operators marked *Deviation* are plausible mistakes (a dropped guard, a
forgotten field, an off-by-one).  No action uses them; each is there to be put
in the place of the definition that follows it, under which the property named
in `PROJECT.json` must fail.

### The scheduler

| Variable | In the code |
| --- | --- |
| `disk` | the files; a record has the fields the scheduler acts on |
| `mpc` | where the main thread is in `command_run` and `run_once` |
| `snap`, `todo`, `target` | the list of records the main thread iterates over, what is left of it, the bead a corrective is being made for |
| `selected`, `started`, `deferred` | the selection of a fill pass, `started_this_cycle`, `deferred_this_cycle` |
| `wpc[b]` | where the worker of `b` is; `"none"`: no future for `b` |
| `obj[b]`, `subj[b]` | the `Bead` object the worker holds, and whose it is (after a recovery: the recovered bead's) |
| `res[b]` | the `AgentRunResult`, after the verdict is normalized |
| `seen[b]` | records of other beads the worker loaded and has not used up |
| `plan[b]` | the ids `_create_followups` settled on |
| `runs`, `cycle`, `ops`, `crashes` | bounds, and the cycle counter of `command_run` |
| `forsaken` | (history) beads that were done when their worker raised over a bead the agent proposed |

What never changes in a bead (agent type, parent, kind, feature root) is a
constant indexed by the id: a child's id says what it is, so that the table of
an instance (`Row` in `MCScheduler`) lists the ids that can be allocated.  An
id that is allocated and missing from the table shows as a deadlock.

An action is what one thread does between two points at which another thread's
file access can matter.  A worker that loads a record, changes it and saves it
is two actions; what it does in memory goes with the next save.

| Code | Actions |
| --- | --- |
| `command_run` loop, `run_once` | `StartRun`, `BeginCycle`, `EndFill` (`EndCycle`, `Submit`), `WaitCompletion`, `Abort` |
| `_reevaluate_blocked`, `reevaluate_corrective_state` | `RetryTransient`, `ReevaluateCorrective`, `ReevalCreate`, `ReevalLink` |
| `_select_beads_for_dispatch` | `BeginFill`, `DeferBead`, `SelectBead` |
| `process` | `Start`, `StartWithoutWorktree`, `SaveFeatureRoot`, `Launch`, `AgentReturns` |
| `finalize` | `UnsupportedVerdict`, `FinalizeBlocked`, `FinalizeFailed`, `SaveFailed`, `CreateRecovery`, `CommitFails`, `FinalizeDone`, `LoadOriginal`, `CompleteOriginal` |
| correctives from finalize | `CheckCorrectives`, `CreateCorrective`, `LinkCorrective`, `LoadParent`, `RequeueParent` |
| `_create_followups` | `ListForFollowups`, `CreateSubtask`, `RefuseSubtask`, `PlanFollowups`, `FollowupTest`, `FollowupDocs`, `FollowupReview` |
| `takt retry`, status changes | `OperatorRetry`, `OperatorStatus` |
| kill | `Crash` |

What it simplifies:

* The agent type of an id is fixed: `_repair_invalid_worker_agent_type` is left
  out, and so are the statuses `open` and `handed_off`, which the scheduler
  never dispatches or writes.
* `changed_files` and `touched_files` are one field; so are the handoff
  summary's files and the bead's.
* `list_beads` is atomic, and so are the ready list with the active list of a
  fill pass, and lease expiry with the list of blocked beads after it.
* `Launch` stands for the saves of skills, `started` event, guardrails: the
  same object saved several times with nothing read in between.
* Files are never deleted here (they are in `BeadGraph`).  `save_bead` refuses
  an unknown dependency of a bead that the agent proposes (`RefuseSubtask`) and
  of a review in `FollowupReview`; every other dependency the scheduler writes
  is on a bead it has seen.
* The inputs from agents are the outcome, the files touched (`Touches`), the
  scope that replaces the bead's (`Reports`), and new beads with dependencies
  and scope (`Proposals`), from small sets of the instance.
* Among candidates of equal priority the order is free (the code sorts by id),
  and where several shared followups match, any one is taken.
* The time is not modelled: leases that expire are any set of them, chosen when
  a cycle starts, when the process has no worker running.
* One scheduler process at a time.
* Only beads under a planner epic have no feature root; they are not worked on
  by mutating agents.

### Worktrees, agents and the merge gate

In `Agent`, `at[b]` is the step of the thread of a bead: `ensure`, `add_tree`
and `protect` of `ensure_worktree` (`LookForTree`, `AddTree`, `ProtectTree`,
`TreeFails`), `agent` and `retry` of the runner (`Edit`, `ClaudeAnswers`,
`RetryAnswers`, `CodexAnswers`), then the git commands of `commit_all`
(`Status`, `Add`, `Diff`, `Commit`, `RevParse`, `CommitFails`), for itself or,
in the steps `r_...`, by a recovery bead on its behalf (`Recover`).  A bead's
work is one change that is in the worktree (`dirty`), staged (`index`) or in
the branch (`committed`).  A CLI answers with any combination of a structured
payload, text and an error flag.  `spent` is what the calls of a run cost,
`cost` what its telemetry says.

`command_merge` is a sequence of steps (`pc`); between two of them main may
advance, a developer may finish a merge-conflict bead, the operator may abort
a merge in the checkout of main, and the command may be killed.

| Code | Actions |
| --- | --- |
| start, options, the check for conflict beads | `StartMerge`, `CheckConflictBeads` |
| `merge_main_into_branch`: `git merge`, then the fallback for bead files | `SkipPreflight`, `Preflight`, `PreflightRefused`, `ResolveState` |
| `abort_merge` after a conflict | `AbortMerge` |
| the test gate, in the worktree or, if that is gone, in the checkout of main | `SkipTests`, `TestGate` |
| `_emit_merge_conflict_bead`: the cap, then the bead | `CheckCap`, `EmitConflictBead` |
| `merge_branch`: `git merge`, then the fallback | `MergeBranch`, `SettleState` |
| a worker finishes a merge-conflict bead, and the followups of that are made | `ResolveConflict` |
| a worker finishes another bead of the feature | `FollowupCommits` |
| others, and kills | `MainAdvances`, `RootAborted`, `Kill` |

Git is external.  A branch is the set of changes it contains; a merge unites
two such sets unless two changes clash that only one side each has (`Clash`).
A clash of bead files alone is resolved for ours by the fallback, any other
leaves the checkout in the middle of the merge, where git refuses another.
The fallback does not ask which merge the files in conflict are of, and neither
does the model: `theirs` and `incoming` are what the unfinished merges bring
in.  The tests fail on two changes that break each other until somebody fixes
them (`Breaks`, `Fixes`), and may fail or time out at any time.

`README.md:132` says "When all beads in a feature are done, merge the feature
branch"; the command checks merge-conflict beads only (`merge.py:90`).  A
merge-conflict bead is a developer bead (`merge.py:61`), so when it is done its
tester and its documentation bead are made (`followups.py:192`), and work in the
same worktree while the next command runs.  `open` counts the beads, these and
others, that may still edit and commit (`LateWork`); `others` is the history of
what they brought past the tests of a command.  A resolver that leaves conflict
markers in the files is not represented, only one that merges, fixes, or does
neither.  The feature's branch and worktree are recorded.

### The graph of the beads

In `BeadGraph` an actor (an operator's command line, or a thread of `takt run`)
has a copy of a bead in hand and goes through `save_bead`: the check that all
dependencies are stored (`CheckDependencies`), the file, and the commit, whose
failure writes the copy again (`WriteNode`).  `CreateNode`, `UpdateNode`,
`EndWork` and `RequeueNode` take up a copy.  `ListReady` is the list of
`ready_beads` with one bead of it in hand: if a dependency is not stored the
copy gets a warning and is written without the check (`RecordMissing`), if one
is not done it is left (`PassOver`), else it is started (`StartWork`).
`DeleteNode` is `delete_bead`'s checks, `Unlink` the removal, `ListDependents`
the list of all beads, `CleanDependent` the rewriting of one that depends on
it, until none is left (`DeleteEnd`).  `PlanStart`,
`PlanCreate`, `PlanLink` and `PlanEnd` are `persist_plan`: the beads one by one
in preorder, then, for each again, its dependencies by title.  A process may be
killed anywhere (`Broken`).  `alone` notes of a plan or a delete whether it had
no company.

### The terminal UI

`rows` is the cache, `BuildRows` the filtered tree, `Refresh` what the timer
and most keys do to selection and pending confirmations.  A bead file that is
being written may make a refresh fail.  `StatusChange` is the scheduler.  Under
`--feature-root` that root is a row whatever the filter (`tree.py:88`).  In
`TuiLog` the event log is a sequence of pieces, an event in one or two, since a
long line reaches the file in parts; `TailEventLog` goes forward from
`event_log_offset`, `LoadHistory` (H) backward from `history_offset`.  A tick
writes to the panel also while a modal is open: `_append_log_line` passes over
a missing panel (`app.py:684`), but in the Textual that is locked (`uv.lock`:
0.89.1) `App.query_one` looks in the default screen, where the panel is; with a
release before 0.86, which looked in the modal, these lines would be missed too.

### The fleet

Registrars load and rewrite the registry (`LoadRegistry`, `Register`,
`Unregister`).  A command takes the registry, writes its record, gives each
target to a pool (`StartJob`, `FinishJob`), collects (`Collect`, `SaveResult`),
and finishes its record (`FinishRun`); Ctrl-C cancels what is queued and waits
(`Interrupt`, `Join`), a kill ends everything.  A Ctrl-C while the pool is still
being filled is outside the `try` (`executor.py:29`): what is in the pool runs,
then run ends with its record unfinished, and dispatch, which catches it
further out, finishes its own.  `ShowRun` and `Tail_run` are the
viewer.  In `FleetWatch` each tailer thread reads a log line by line
(`ReplayLine`), puts what it kept into the queue (`EmitPending`), and follows the
file (`ReadLine`), while the writer appends pieces of events; a line is where it
begins and ends in the log, which only grows.

### Files

* `Memory`: a text is a sequence of sentences with sizes; `SplitIfLarge` and
  the chunking of tables go through their input as the loops of the code.  Of
  the embedding only the distances of the texts are known, which the instance
  gives: it reads the first 512 tokens of a text (`memory.py:152`), so that
  different texts can be at distance 0, and nearly the same ones are below
  `_DEDUP_THRESHOLD` (0.05).  `Search`, in a namespace or in all, over-fetches,
  filters, and drops what is beyond `--threshold`; that sqlite-vec refuses to
  fetch more than 4096 rows is left out.  An ingest is a search and an add per
  chunk.
* `Upgrade`: a content is whose it is and of which release; `Decide` is
  `evaluate_upgrade_actions`, with the files it meets again under `.disabled`
  names.  A write truncates first, so that a kill can leave any file that was
  being written torn.  The config is parsed and dumped again when it lacks keys
  (`init.py:226`): it becomes `"settings"` if the user's values are in it and
  `"merged"` otherwise, in both cases without comments.
* `Specs`: `set` is a read, a write, a move and another write.

## 3. What TLC checks

| Run | Module, instance | Shows |
| --- | --- | --- |
| `SerialPipeline` | `MCScheduler`: one developer bead, its followups, a proposed subtask, a recovery and correctives; one worker; completion, blocks, `needs_changes` of the tester, transient failures, missing output, a `GitError` of the tester, a proposal with an unknown dependency; killed at most once and restarted | types, one open corrective, no lease left, no blocked bead without a corrective to its name; followups and recoveries complete if not killed |
| `BusyPipeline` | the same tree and two unrelated beads, two workers, so that finalize and the main thread both make correctives and both requeue; correctives that fail transiently or block; unknown verdicts, two runs | the budget, escalation, retries earned, dependencies, the abstract life of a bead, with the main thread woken at any moment |
| `SharedFollowups` | a planned feature: two developers sharing tester, documentation and review, and a documentation bead of its own; scopes of every kind; two workers | who may share a worktree, and with which scopes; stale followup writes keep leases |
| `Operators` | a tree with `serialize_within_feature_tree`, retry and status changes at any two moments, two workers | exclusion of mutating beads and termination survive operators |
| `Worktrees` | `MCWorktrees`: two beads of a tree, two runs each, one death; then the merge of a feature with a code change and a bead file that clash with main, a change that breaks the tests, and a late test of a followup that breaks them too; up to four commands, one kill | one worktree, work committed, no half-done work, cost added up; what lands is what was tested, but for what open beads commit late; conflict beads are bounded, block and find a clean worktree |
| `Fleet` | `MCFleet`: two registrars, a command over two projects with one thread, two Ctrl-C, one kill, a viewer; two watched logs; two releases of the assets, one edit and one kill | one entry per path; the viewer and the tailers print what is written; finished records are final and get finished; edits kept, assets brought up to date |
| `Tui` | `MCTui`: a bead and its child, the first as `--feature-root`, two filters, two changes from outside, events in pieces | confirmations act on what is selected; the log is ordered and complete |
| `Files` | `MCFiles`: two agents, three entries, two of the texts nearly the same; two agents on two specs and one kill; two command lines, one worker, four beads, one break | ingest and search; status repaired; dependencies exist; plans in order |
| `Stranded` | finding: one worker, one run, nothing killed | a blocked bead whose corrective blocked, and nobody told |
| `DuplicateCorrective` | finding | two open correctives |
| `TuiLog` | finding | a panel that misses lines |
| `UserOwned` | finding | a user-owned file disabled |

Deadlock is checked except in `Fleet`, `Files` and `UserOwned`, whose commands
and bounds end: there is nothing left to do when every command has been used up.

### Bounds, and why they are enough

* `MaxWorkers` is 1 or 2.  Every race in this code is between one worker and
  the main thread, two workers, or an operator and one of them.
* `MaxCorrective` is 2, the smallest budget for which finalize's corrective,
  which looks at no budget, does not by itself exceed it; three correctives
  per bead are in the table, so that a fourth would show and a third can.
* `MaxCycles` is 3 or 4: a bead that is retried can only start in the next
  cycle, and two correctives and the escalation take three.
* `MaxRuns` is 2 where a run may abort or be killed; `MaxCrashes`, `MaxKills`
  and `MaxAgentKills` are 1: a second crash finds a state that one crash and a
  longer run also reach.
* `MaxOps` is 2: an operator's change and its revision.
* Outcomes are chosen per bead (`SomeOutcomes`, `VerdictOutcomes`,
  `UnknownVerdicts`): all eight occur, those that differ in effect at the bead
  where they differ.  `GitFails` is the tester in `SerialPipeline`.
* `MaxSubtasks` is 1; the proposed bead depends on the developer bead or on its
  tester, which does not exist yet (`SomeProposals`), the two that `save_bead`
  tells apart.
* One file per pipeline, two files and a document in the shared feature, two
  patterns of which one extends the other: the relations the rules tell apart.
* `MaxMerges` is 4: a conflict, a failed gate, a refused command and a merge
  fit in; `MaxAttempts` is 2, so that the cap is reached with resolved beads
  and with a pending one.  One command at a time (`Mergers`): see below for two.
  `MaxOpen` is 1, since every merge-conflict bead adds two; `LateWork` is one
  change, that passes alone and fails with the feature's.
* In `Agent` two beads, one with a new file and one with a change to a tracked
  one; two runs, so that work of a failed run is there in the next.
* In the fleet, one thread for two projects, so that one is queued when Ctrl-C
  comes, and may not be submitted yet; two interrupts, for the one that the code
  handles and the one it does not; three events, of which two can be in pieces.
* In the TUI a parent and a child, so that a row can move, lose its parent and
  disappear; the second filter hides what the first shows.
* In `Upgrade` the second release removes a guardrail and a skill and adds a
  template; two suffixes, so that a disabled file meets a disabled file.
* In `Memory` documents that are split by section, by size and by row;
  `MCDistance` reads two sentences of a text and hardly notices one of them, so
  that there are texts at distance 0, below the threshold of 2, and beyond;
  a search has the largest distance or 1 as its threshold.  `OverFetch` is 2 in
  place of 20, so that three entries can exceed it.
* In `Specs` two statuses share a folder, as draft and drafts do.
* In `BeadGraph` four beads: an epic, a feature and two tasks, of which the
  first names the second before that has an id, or names none that is known; or
  two beads, of which one waits for the other, and a third made beside them.  A
  plan beside a new bead would find no room for its last task, so that `MCFiles`
  takes plans and new beads apart.  Two commands and a worker give every pair.

### Fairness

`FairSpec` of the scheduler gives weak fairness to the main thread and to the
workers as a whole.  The main thread never waits except in `cf_wait`, for a
worker; agent calls have timeouts in `runner.py`, and the pool's threads are
scheduled by the operating system.  Operators, crashes and new runs have no
fairness.  `RunEnds` needs nothing else: that the loop comes to rest is due to
`started_this_cycle` and `max_cycles`.

The fleet's command and viewer have weak fairness, and so have the start and
the end of each job: the pool takes what is queued, and a takt run in a project
ends, which is `RunEnds`.  Registrars, interrupts and kills have none.

## 4. What the code does not keep

Runs of their own, with the property that fails:

* **DuplicateCorrective** - `finalize` (`finalize.py:141`) and
  `_reevaluate_blocked` both look for corrective children and both create one.
  It takes a second bead whose completion wakes the main thread in between.
  The tests promise one (`tests/test_scheduler_followups.py:1054`).
* **Stranded** - a corrective that is itself blocked is neither open nor done.
  While the budget of its parent is not spent, `_can_plan_corrective` refuses
  the corrective a corrective of its own, and `reevaluate_corrective_state`
  (`execution.py:264`) leaves the parent as it is: the run ends, and no
  corrective is made and nobody told, though `README.md:14` says that blocked
  beads "automatically create corrective work items rather than silently
  failing".  `OnlyCorrectivesStall` says, and is checked and proved, that this
  is the only way to be left.
* **TuiLog** - `action_manual_refresh` (`tui/actions.py:431`) takes new events
  into memory without writing them to the log panel, and the timer then passes
  over them (`docs/development.md:42`).
* **UserOwned** - `evaluate_upgrade_actions` (`onboarding/upgrade.py:321`)
  disables entries the bundle lacks without looking at `user_owned`, so a file
  the user added is adopted by one upgrade and renamed by the next
  (`docs/onboarding.md:267`).

The rest was met on the way; where a property of section 3 excepts a case, the
case is here.

Scheduler.  `_sync_followup_scope` saves a shared followup as it was listed; if
another worker finished it since, a done bead is undone (`followups.py:372`),
and the same write can orphan a lease.
`_populate_shared_followup_touched_files` adds files after the conflict check
(`followups.py:424`; `docs/development.md:203` promises no overlap): the tester
that two developers share may be let in beside a documentation bead whose files
one of them has changed, and grow into its scope.  `ScopesDisjoint` excepts the
followups that take over scopes (`TakesOver`) for this.  A developer bead that
completes without having changed a file lets its followup start with no scope;
the sync of the next followup then gives the file one, and the conflict check,
which goes by the file, lets a bead in beside the followup.  After a kill
between the save of the done bead and `_create_followups` (`finalize.py:197`)
nobody creates the followups; after one between the two saves at
`finalize.py:305` the recovered bead stays blocked; and after one between the
creation of the recovery bead and the save of the failed bead, the recovery
completes a bead that is in progress.  With some planner-owned followups the
missing ones are suppressed rather than backfilled (comment at
`followups.py:241`), and the review's dependency on the missing id makes
`save_bead` raise.  So does, with no kill and one worker, a bead in `new_beads`
whose dependency the agent got wrong: nothing checks it before `save_bead`
(`followups.py:208`, `storage.py:167`), the developer bead is saved done by
then, the run is aborted by the exception, and since nothing looks at done beads
again the bead is never tested, documented or reviewed (`forsaken`, which
`FollowupsExist` excepts; `RefuseSubtask`).  A proposed tester, documentation or
review bead under the root of a feature passes for a followup the plan shares
(`SubtasksApart` excludes it).  The id of a corrective is looked for as a part
of the history's text (`followups.py:53`), and the later ids extend the first
(`B-corrective`, then `B-corrective-2`), so that the first corrective counts as
used once any other was, and then buys no retry.  A bead with a recovery bead
may not plan correctives, so it is escalated as "Exceeded corrective attempt
budget" after its first one (`execution.py:257`); with two workers the recovery
bead can finish before the failed bead is saved, and be overwritten
(`finalize.py:158`); a deferral saves the record of the ready list over an
operator's change (`core.py:254`); with operators a finished run may leave a
lease.  Two beads of one feature share a worktree although `README.md:13` speaks
of one per bead.  With a budget of 0 or 1 the duplicate corrective exceeds it.
An unknown verdict raises in the worker (`finalize.py:490`), and the bead stays
in progress with its lease.  A `-test` or `-docs` child that was made by hand
without a dependency on its parent is taken for the followup and never given
one: only the review's dependencies are synchronized (`followups.py:333`).

With one worker none of these races occurs (section 5 proves it), but three
cases remain that need no second thread, and the theorems exclude them by
hypotheses.  A corrective that is blocked *transiently* is no longer open, so
that with an older one that is done and a budget of three
`reevaluate_corrective_state` makes another (`execution.py:256`); the loop then
wakes the first (`core.py:296`), and two are open.  A corrective that gives no
output is blocked and gets a recovery; when that finishes late it completes the
corrective and requeues its parent, for which a newer corrective is open by
then.  And a kill between the creation of a recovery bead and the save of the
failed bead (above) lets the recovery complete a bead that is back in the queue.

Graph of beads.  An update that races a delete brings the bead back, and so does
the worker of a bead deleted by force, possibly under a parent that is gone; a
bead created with a dependency that is being deleted keeps it.  Beads of a plan
are ready before their dependencies are added: a worker or an update in between
starts them or loses the dependencies, and the planner's copy may put a bead in
progress back to ready.  Of two beads with one title the last is meant; an
unknown title makes `save_bead` raise, and half of the plan stays, ready and
without dependencies.  A commit that fails writes a copy again that may be 30
seconds old.

Worktrees and runners.  A recovery bead is not a mutating agent, so nothing keeps
its `commit_all` (`finalize.py:329`) apart from beads that work in the tree, and
it commits what they have half done; a `GitError` there is passed over, which
leaves a done bead with uncommitted work.  Of two beads that commit at once the
second `git commit` finds nothing and its bead is blocked, and `rev-parse HEAD`
may name the other's commit.  The cost of failed runs is in no telemetry.  A
retry of structured output that times out raises without the sentinel, so no
recovery bead is made.

Merge gate.  What the followups of a merge-conflict bead, or any other bead of
the feature that is not done, commit between the test gate and the merge lands
untested, and what they have edited and not committed is in the worktree that
the tests run in (`others` in `LandsWhatWasTested`); a commit of theirs in the
worktree of a half-done merge concludes it.  The command takes no lock, so two
of them can exceed the cap and land while a merge-conflict bead waits.  A final
merge that conflicts raises and leaves the checkout of main in the middle of the
merge (`merge.py:220`), without a merge-conflict bead.  After a kill between
`git merge` and its fallback (`gitutils.py:228`), the next command's fallback
concludes that old merge and reports success: an older main in the worktree
(`base` is then what was merged), or an older branch in main (`Current` excludes
it from two properties).  A command with `--skip-rebase` does not look at the
worktree, so that after a kill its failing tests make a merge-conflict bead
whose worktree is in the middle of a merge (`CleanForResolver` excludes it).
When the worktree is gone, the test gate runs on main and says nothing of the
branch (`merge.py:146`; `Gated` excludes it).  The cap counts resolved beads, so
that a feature that has used it up is never given another.

TUI.  A confirmed retry looks at the cached row only (`actions.py:135`), and one
that is skipped because a recovery is under way is reported as done.  A line
torn at the moment of a refresh is dropped (`state.py:600`).  `confirm_merge` is
dead code.

Fleet.  Two register commands lose an update (`registry.py:60`); names are not
unique, and unregister removes all of a name.  A run without a target leaves its
record in progress for ever, and `runs show` follows it for ever
(`run.py:68`).  Ctrl-C drops the results of a dispatch though it prints "partial
results saved" (`dispatch.py:103`), and the results of jobs that were running;
a second Ctrl-C, one while run still fills its pool (`executor.py:29`), or a kill
leaves the record unfinished and not crashed, although `docs/fleet.md:249` says
otherwise.  Watch prints a line that is being written in
two parts.

Memory.  A chunk within 0.05 of an entry of its namespace is taken for a
duplicate (`memory.py:485`), and what it says beyond that entry is stored
nowhere: another number or sentence in a long text, or anything after the first
512 tokens, which are all that the embedding reads (`memory.py:152`).  A
worker's `takt memory` uses its worktree, so its database is not the project's
(`memory.py:6`).  Two ingests at once add a chunk twice.  The over-fetch is
before the filter, so entries of other namespaces can hide the nearest
(`memory.py:427`).  A download of the model that is killed leaves a part of the
file.

Upgrade.  The config that lacks keys is read with `yaml.safe_load` and written
with `yaml.dump` (`init.py:229`), so that the user's comments and layout are
lost, although `docs/onboarding.md:296` calls the merge non-destructive; and the
write truncates first, so that a kill leaves the config empty or torn, and her
settings with it.  A kill between the copies and the manifest, or `takt init`
over a newer manifest, makes files look locally modified for ever; a torn
manifest reads as an empty one, and everything is overwritten; after an init
killed before the manifest the templates are never tracked; a file that is
disabled replaces the one disabled before; a config whose keys were merged
counts as modified, and files that init skipped are overwritten as new
(`docs/onboarding.md:270`).

Specs.  A move replaces a file of the same name in the other folder; a kill
between write and move leaves status and folder apart, until the next set; two
sets lose an update; a title that begins with `[` makes a file that cannot be
parsed.

## 5. What is proved

For every value of the constants, from the named assumptions of the modules
(types of the constants; finitely many runs and projects; beads that start in
progress have a lease; only non-mutating beads have no feature root; the tree
of a plan is a sequence in preorder):

* `TypeCorrect == Spec => []TypeOK` (`SchedulerProofs`).  `TypeOK` is inductive
  because it says what a worker keeps at each step: it has the earlier reads
  it will write back, and the three followup ids before it writes followups.
* `SerializedExclusion == Spec => []SerializedExclusive` (`SchedulerProofs`).
  The inductive invariant is that beads *claimed* - in flight or selected -
  are apart.  A worker cannot claim; the main thread claims in `SelectBead`,
  where `Blockers` is empty, and serialization makes any two mutating beads of
  a tree block each other whatever their scopes, so that it does not matter
  that the files the check reads are stale.
* Beads that share a worktree, with any number of workers (`SharingProofs`).
  The conflict check compares files, the claims are about the objects of the
  workers.
  - `DevelopersDisjoint == Spec => []DevelopersApart`: two developer beads that
    are no feature roots work in one worktree only with declared and disjoint
    scopes, whatever operators do, is killed, requeued or stale.  `DInv` says
    that the file of a developer that works has the scope of its object, since
    only its own worker records it in progress and nobody else changes its
    scope meanwhile.
  - `WorktreesShared == Spec => []WorktreeExclusive` and `ScopesApart == Spec =>
    []ScopesDisjoint`: the same of all mutating beads, shared followups
    included, killed and restarted at will, in `PlannedTrees`.  Of a followup
    the file is no evidence by itself, as the sync writes back what it listed
    earlier and `Start` grows the scope.  The inductive invariant `ShInv` adds
    to the flow of copies (`HInv`) that each worker keeps to its own bead
    (`Threads`); that only its worker and the main thread write a developer
    bead, and know what they overwrite (`Developers`); that no copy has other
    dependencies than the file (`DepsFixed`); that no bead is picked twice in a
    cycle (`Pool`); that no copy held anywhere can put a bead in progress which
    its worker has not started, or write one in progress as waiting (`Timely`);
    that whoever finds a followup in progress finds a scope only if its worker
    has one, and, if it takes over none, the same (`ScopesKnown`); and that the
    beads let in fit together (`AdmittedFit`).  The theorems follow from the
    last part.  The others are there for two steps: a followup is started with
    the files of its developers because those are done, and a developer that is
    done stays done with its files.
  - `DevelopersBeforeFollowups == Spec => []DevelopersFirst`, from the same
    invariant: a bead is worked on only while the developers it depends on are
    done.  It is `WorksOnDoneDeps` for any number of workers, of dependencies
    on developers; a review may run while a tester is undone by the sync.
  - `PlannedTrees` is what makes this true, and the instance of
    `SharedFollowups` satisfies it: no operator (`NoOperator`) resets a bead
    whose followups have begun; nothing is recovered (`NeverRecovered`,
    `NoRecoveries`), since a recovery completes a bead that its worker does
    not hold; feature roots change no files (`PlainRoots`), since
    `process` saves the root from a copy (`execution.py:108`); developers of a
    plan change some file (`DevelopersTouch`, section 4); and no followup of a
    developer is there before that is done (`StartsUnfollowed`).  Planned
    features, as `takt plan` writes them and agents work on them, are such.
    TLC checked the parts of `ShInv`, with a kill and a second run, before
    they were proved.
* `LeaseCorrect == Spec => []InProgressLeased` (`SchedulerProofs`).  Of the files
  alone this is not inductive, since threads write old copies back.  The
  invariant is that every copy is sound: the files, the main thread's list,
  the objects of the workers and what they have read.  Then each action is
  shown to make sound records only from sound records.
* The budget (`SchedulerProofs`), for any number of workers and kills.  The
  argument is about the flow of copies: every record that any thread holds
  derives from a file, and every save writes what derives from a held copy
  (`StepFlow`), so a claim that survives `Derived` and holds of all copies
  cannot be undone by a stale write.
  - `EscalationJustified` (with operators too): a human is asked only if the
    budget is spent or the bead has had a recovery; and, where nothing is
    recovered (`NeverRecovered`), `EscalationSpendsBudget == Spec =>
    []EscalatedAfterBudget`.  `StartsFairly` says the initial records do not
    already break it.
  - `CorrectivesWithinBudget == Spec => []CorrectiveBudget`.  The main thread
    creates with less than the budget; a worker creates what is not yet there
    for its bead, and the two may do so at once.  `Counted` gives the bound
    for each place a creator can be; it needs `BudgetOfTwo` (the default is 5,
    `config.py:19`; with 0 or 1 the statement is false) and `NoOperator`,
    since an operator can requeue a bead whose worker is about to create.
* `SerialProofs`, with one worker, the default of `takt run --max-workers`
  (`cli/parser.py:63`), and no operator beside it (`OneWorker`), killed and
  restarted at will.  The inductive invariant `SerialInv` says that *nothing
  held is stale*: the main thread waits while the worker runs, so what either
  holds agrees, at each step, with the files it will overwrite, up to what it
  is about to change itself.  `SerialStep` is that invariant together with
  `Effect`, what one step can do to one file; the theorems below rest on it.
  - `WorksOnDone == Spec => []WorksOnDoneDeps`.
  - `RetriesJustified == Spec => RetryJustified`, where below a corrective no
    other developer bead is made (`CorrectiveDevelopers`, as the code's ids
    have it).
  - `OneCorrective == Spec => []OneOpenCorrective`, with
    `NoTransientCorrectives` (section 4).  The invariant orders the correctives
    of a bead: no gaps, and only the last can be open (`InOrder`).
  - `LifecycleImplemented == Spec => ImplementsLifecycle`: the refinement of
    `BeadLifecycle`, shared followups included.  The step that is hard is
    `CompleteOriginal`, which marks a bead done that the recovery's worker does
    not hold: the invariant `LifeInv` shows that it is still blocked.  The
    hypotheses that no kill occurs and that correctives answer
    (`CorrectivesAnswer`) exclude what section 4 describes.
  - `LifecycleWithoutRecovery`: the same, with kills at any point and without
    the hypotheses on correctives, where every agent answers.
  - What a run leaves that ends of its own accord: `LeasesReturned == Spec =>
    NoOrphanLease` (`VerdictsKnown`), `BlockedBeadsAttended == Spec =>
    OnlyCorrectivesStall` (a run over the whole project, `WholeProject`, since a
    filtered run need not look at every bead): what is blocked and unattended
    has a corrective that blocked, and the run `Stranded` shows that such beads
    there are; `RecoveriesEffective == Spec => RecoveryCompletes`, and
    `CompletedBeadsFollowed == Spec => FollowupsExist`. The last follows a done
    bead through `_create_followups`: until each of the three is written, the
    worker is still on its way and aims at a bead of the right agent and tree,
    listed or to be made (`Aimed`), and what it has linked stays linked.
    Excepted are the beads whose worker raised over a proposal (`forsaken`),
    which only grows.  Shared followups are made by a plan for all three agents
    or for none (`SharedWhole`; with some only, see section 4); the one place
    where this fails for a while is a developer bead that is itself the root of
    its tree (`Branching`).  `SubtasksApart` excludes proposed beads that pass
    for shared followups.  `FamilyAgents` says that the suffix of an id agrees
    with its agent, as in the ids the code makes.  Where the property is of runs
    that were not killed, the theorem has no hypothesis about kills.

  The hypotheses named `Starts...` say that the initial files do not break the
  property already (a store in which a done bead lacks its followups stays
  so); an empty store, and the store of one new bead, satisfy them all.
  TLC checked `SerialInv`, `LifeInv` and `FollowInv` on instances with one
  worker before they were proved.
* `NothingDangles == GraphSpec => []DependenciesExist` (`GraphProofs`), with
  plans, commands, workers, deletes, failing commits and kills.  What is stored
  says nothing of the copies that will be written, so the invariant follows
  them: who is past the check of `save_bead` holds only dependencies that are
  *safe*, that is stored, torn, or being deleted by somebody else, and so
  does who has just listed a bead, whose copy may be written with a warning and
  no check; a delete
  that cleans up has a list of safe copies, which is the graph itself if it is
  alone; and who is alone has only silent company, so that nobody can write a
  dependency on a bead between its removal and the rewriting.  `OthersKeep`
  shows once that a step of one actor leaves what the others hold safe; each
  action is then shown to keep what its own actor holds.
* `StartedInOrder == GraphSpec => PlanOrder` (`GraphProofs`), for any
  proposals, with forward references, shared titles and unknown ones.  The
  invariant `OInv` follows the copies again: every copy that may yet be saved
  depends on what a plan wanted first, unless that was deleted.  While a plan
  is being written it has wanted nothing yet, but `Pursuing` says that its ids
  are its own and new, and that, if it has no company, the beads that it has
  given their dependencies still have them (`LinksStay`) and no agent holds an
  older copy of one of them (`NotWorkedOn`): the first is lost as soon as
  somebody edits beside the plan, the second when a worker starts a bead of it
  too early, which is why `PlanOrder` is of plans without company.
  `AfterIsDeps` shows that the second pass links what the plan means: of two
  beads with one title the last.
* `WorktreesReady`, `WorkCommitted`, `CostsAddUp`, `HalfDoneUncommitted` and
  `AgentTypeCorrect` (`WorktreeProofs`), for any number of beads, runs and deaths.
  The invariant has a part for each: who adds or protects the worktree is the
  one in the lock, and only who adds it finds no directory (`Locked`); what
  was spent at each step (`Counted`); the change of a bead is somewhere, and
  from `git diff` on no longer in the worktree, after the commit no longer
  staged, so that a bead that finds nothing to commit knows that its work was
  committed by another (`Accounted`); in a serialized tree at most one bead is
  running (`OneAtWork`).
* The properties of the merge gate (`WorktreeProofs`): `ConflictBeadsCapped`,
  `LandingTested`, `LandingUnblocked`, `ConflictsFound` and `ResolverClean`.
  Each has the hypothesis `OneMerger`, one command at a time, since the code
  takes no lock and with two the statements are false; `MergeTypeCorrect` does
  without.  The inductive invariant `MInv` says what a command knows at each
  step: past its check that no merge-conflict bead waits, so that none is
  resolved beside it; before it makes one that the cap allows it; after a
  preflight that the worktree is in no merge and the branch contains what was
  main; after the tests that the branch is what they passed, but for `others`,
  the changes of beads that were still open: if there are none, what lands does
  not break the tests.
* `RegisteredOnce`, `FinishedRunsAreQuiet` and `ViewersSeeTheRecord`
  (`FleetProofs`), for any number of projects, fleet commands, threads,
  interrupts and kills.  The list that a fleet command loaded has one entry a
  path, and so has what it saves.  `LogInv` relates the record, the pool and
  the results: at work the record is unfinished, what is not a target has no
  job, each result is of a job that is done and is collected once, and nothing
  is queued once the pool is left; `Enumeration` shows that dispatch reports
  each project once.  For the viewer, the record of a run only grows
  (`Growing`), and what was printed begins it (`Shown`).
* `TailsFaithful == WatchSpec => []TailFaithful` (`FleetProofs`), for any number
  of projects and threads, torn lines, errors and interrupts.  `Holds` says what
  a thread keeps between reading and putting: the ends of the lines between the
  two, the last one among them, so that when none is pending it has put all it
  read, and can follow the file from there.  What the main thread took and what
  waits are one sequence (`Put`), which Show does not change.
* `UpgradeTypeCorrect`, `EditsKept` and `BroughtUpToDate` (`FleetProofs`), for
  any releases, suffixes, edits and kills.  The invariant has two parts.
  `Sourced`: the user owns every entry that is hers, and an entry of the bundle
  never has the hash of a text of hers, so that a file with such a text is not
  copied over, and a file that was torn in the writing is nobody's text.  Of the
  config the theorem keeps the settings: the comments are lost in the round
  trip through YAML, and everything if the command is killed while it writes.
  `Recognized`: unless a command wrote files and not the
  manifest, an asset that differs from its entry was edited, which is why an
  upgrade that skips it as modified skips a text of the user's.  That a
  disabled file survives a row of disabled ones in front of it (`CarriedOn`) is
  an argument about the first name in the row that is not itself disabled,
  which exists since files at the suffix bound are not.
* `ConfirmedIsSelected`, `OnlyConfirmedWrites` and `LogIsFaithful`
  (`TuiProofs`).  The first is inductive as it stands: the lemma `Refreshes`
  shows that a refresh with what its handler left pending keeps it, since a row
  that is found again is selected again.  For the log, `Spans` says of a
  sequence of lines that it is what is to be shown of the events that begin in
  a stretch of the file; what one read finds spans a stretch (`ReadSpans`), and
  two that meet join (`SpansMeet`).  Following the file joins at the end,
  loading history in front.
* `SetRepairs == SpecsSpec => []SetStatusRepairs` (`FilesProofs`), for any number
  of agents, specs and kills.  `SInv` says of a set status that nothing ran
  beside so far what it finds at its next step (`Found`) - the file as it read
  it, then the file with the new front matter, then one file where the status
  puts it - and that all other agents are quiet; a command that begins beside it
  takes that away.
* `IngestStores == MemorySpec => []IngestComplete` and `SearchesFind ==
  MemorySpec => []SearchFinds` (`FilesProofs`), for any files, sizes, limits,
  distances, thresholds, namespaces and agents, with kills and deletes.  The
  first does not say that every sentence is stored, which is false: it is in a
  chunk, and the chunk has an entry nearly the same (section 4).  `FileChunks`
  shows that the chunks of a file have each of its parts; the recursive
  functions it is about are built up step by step (`Iteration`) and the claim is
  carried along them with the least-number principle (`UpTo`), since induction
  over data is not to be had as a theorem.  The invariant `IngestInv` says that
  every chunk has a row nearly the same that is or was there, or is still to
  come; what is taken for a duplicate has its row in the same namespace
  (`DuplicateStored`). `NearestRows` counts: the n nearest of a set of rows are
  n or all, and are nearer than the others.  From it the lower bound on what
  hides a missed row within the threshold follows without an invariant beyond
  the types.

Each proof has one lemma per group of actions and a step per action.

Only model-checked: liveness (`RunEnds`, `RecordFinishes`), which is out of the
prover's reach; every other property of a passing run is stated by a theorem.
The theorems of `SerialProofs` are about one worker.  With two, what they say
(`WorksOnDoneDeps`, `RetryJustified`, `OnlyCorrectivesStall`, `RecoveryCompletes`,
`FollowupsExist`, the refinement) is checked on instances only, and is not true
of every table: a worker that requeues its parent, or synchronizes a shared
followup, writes the record it read over what another worker has made of it
since (section 4); what is true of dependencies with any number of workers is
`DevelopersBeforeFollowups`.

## 6. Not modelled, and the plan

Not modelled because there is no protocol in it: the text of prompts, isolated
skill directories, output formatting, rendering of panels, configuration,
telemetry reports, history text.  Not modelled yet, in the order in which it is
planned:

1. Two scheduler processes, and a lease that expires under a running worker.
2. Two merge commands at once, and a lock under which `OneMerger` is not needed
   as a hypothesis.
3. `delete_worktree` beside running beads; the removal of a deleted bead's
   artifacts.
4. Proofs about the scheduler with several workers, for instances without
   correctives and shared followups: dependencies on followups; the refinement.
