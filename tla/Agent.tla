------------------------------- MODULE Agent --------------------------------
(***************************************************************************)
(* The worker threads of one scheduler process at work on mutating beads   *)
(* of one feature tree: they make sure of the tree's git worktree, run the *)
(* agent CLI in it, turn its answer into a result, and commit what they    *)
(* find.  The worktree, its index and its branch are shared; git commands  *)
(* are the atomic steps.  A change is named after the bead that makes it,  *)
(* or it is of the bead state that the worktree carries.                   *)
(***************************************************************************)
EXTENDS Naturals, Sequences

CONSTANTS
    Beads,      \* mutating beads of the tree
    NewFiles,   \* those whose change is a file git does not know yet
    State,      \* a change of a file under .takt/beads/
    MaxRuns,    \* bound: on the runs of a bead
    MaxAgentKills  \* bound: on the deaths of the scheduler process

ASSUME AgentAssumption ==
    /\ NewFiles \subseteq Beads /\ State \notin Beads
    /\ MaxRuns \in Nat /\ MaxAgentKills \in Nat

VARIABLES
    serialize,  \* scheduler.serialize_within_feature_tree
    backend,    \* the runner's backend_name
    tree,       \* what there is of the tree: "branch", "target", "exclude"
    lock,       \* of _lock_for: the beads whose thread holds it
    dirty,      \* changes in the worktree that are not staged
    index,      \* changes staged
    committed,  \* changes in the commits of the branch
    at,         \* where a bead's thread is
    wrote,      \* history: the beads whose agents changed something
    spent,      \* history: the cost of the CLI calls of its last run
    cost,       \* telemetry of its last result: cost_usd
    passed,     \* a GitError passed over on its behalf
    runs, deaths

treeVars == <<tree, lock, dirty, index, committed>>
beadVars == <<at, wrote, spent, cost, passed, runs>>
agentVars == <<serialize, backend, treeVars, beadVars, deaths>>

TreeChanges == Beads \cup {State}

NoThread == {"idle", "done", "lost"}           \* no thread
Committing == {"status", "add", "diff", "commit", "head"}
Recovering == {"r_status", "r_add", "r_diff", "r_commit", "r_head"}
Running(b) == at[b] \notin NoThread \cup Recovering \* a recovery bead is not mutating

AgentTypeOK ==
    /\ serialize \in BOOLEAN /\ backend \in {"claude", "codex"}
    /\ tree \subseteq {"branch", "target", "exclude"}
    /\ lock \subseteq Beads
    /\ dirty \subseteq TreeChanges /\ index \subseteq TreeChanges
    /\ committed \subseteq TreeChanges
    /\ at \in [Beads -> NoThread \cup Committing \cup Recovering
                  \cup {"ensure", "add_tree", "protect", "agent", "retry"}]
    /\ spent \in [Beads -> 0..2] /\ cost \in [Beads -> 0..2]
    /\ wrote \subseteq Beads /\ passed \subseteq Beads
    /\ runs \in [Beads -> 0..MaxRuns] /\ deaths \in 0..MaxAgentKills

AgentInit ==
    /\ serialize \in BOOLEAN /\ backend \in {"claude", "codex"}
    /\ tree \in {{}, {"branch"}}
    /\ lock = {} /\ dirty \in SUBSET {State} /\ index = {} /\ committed = {}
    /\ at = [b \in Beads |-> "idle"] /\ wrote = {}
    /\ spent = [b \in Beads |-> 0] /\ cost = [b \in Beads |-> 0]
    /\ passed = {}
    /\ runs = [b \in Beads |-> 0] /\ deaths = 0

Go(b, pc) == at' = [at EXCEPT ![b] = pc]

-----------------------------------------------------------------------------
(* The worktree.                                                           *)

(* Deviation: the flag is not looked at.                                   *)
StartUnserialized(b) ==
    /\ at[b] = "idle" /\ runs[b] < MaxRuns
    /\ Go(b, "ensure") /\ runs' = [runs EXCEPT ![b] = @ + 1]
    /\ spent' = [spent EXCEPT ![b] = 0] /\ cost' = [cost EXCEPT ![b] = 0]
    /\ UNCHANGED <<serialize, backend, treeVars, wrote, passed, deaths>>

(* The scheduler starts a bead: with serialize_within_feature_tree alone   *)
(* in its tree, otherwise beside beads with other scopes.                  *)
StartBead(b) ==
    /\ at[b] = "idle" /\ runs[b] < MaxRuns
    /\ serialize => \A o \in Beads \ {b} : ~Running(o)
    /\ Go(b, "ensure") /\ runs' = [runs EXCEPT ![b] = @ + 1]
    /\ spent' = [spent EXCEPT ![b] = 0] /\ cost' = [cost EXCEPT ![b] = 0]
    /\ UNCHANGED <<serialize, backend, treeVars, wrote, passed, deaths>>

(* Deviation: without the tree's lock.                                     *)
LookUnlocked(b) ==
    /\ at[b] = "ensure" /\ Go(b, IF "target" \in tree THEN "protect" ELSE "add_tree")
    /\ UNCHANGED <<serialize, backend, treeVars, wrote, spent, cost, passed, runs, deaths>>

(* ensure_worktree: under the tree's lock; a target that exists is used.   *)
LookForTree(b) ==
    /\ at[b] = "ensure" /\ lock = {}
    /\ lock' = {b}
    /\ Go(b, IF "target" \in tree THEN "protect" ELSE "add_tree")
    /\ UNCHANGED <<serialize, backend, tree, dirty, index, committed, wrote, spent, cost, passed, runs, deaths>>

(* git worktree add, for a branch that exists or a new one.                *)
AddTree(b) ==
    /\ at[b] = "add_tree" /\ "target" \notin tree
    /\ tree' = tree \cup {"branch", "target"} /\ Go(b, "protect")
    /\ UNCHANGED <<serialize, backend, lock, dirty, index, committed, wrote, spent, cost, passed, runs, deaths>>

ProtectTree(b) ==
    /\ at[b] = "protect"
    /\ tree' = tree \cup {"exclude"} /\ lock' = lock \ {b} /\ Go(b, "agent")
    /\ UNCHANGED <<serialize, backend, dirty, index, committed, wrote, spent, cost, passed, runs, deaths>>

(* A git command of ensure_worktree fails: the bead is blocked, and an     *)
(* operator retries it.                                                    *)
TreeFails(b) ==
    /\ at[b] \in {"ensure", "add_tree"} /\ (at[b] = "ensure" => lock = {})
    /\ lock' = lock \ {b} /\ Go(b, "idle")
    /\ UNCHANGED <<serialize, backend, tree, dirty, index, committed, wrote, spent, cost, passed, runs, deaths>>

-----------------------------------------------------------------------------
(* The agent.                                                              *)

(* An agent that is not done makes its change, again if it was committed.  *)
Edit(b) ==
    /\ at[b] = "agent"
    /\ dirty' = dirty \cup {b} /\ wrote' = wrote \cup {b} /\ committed' = committed \ {b}
    /\ UNCHANGED <<serialize, backend, tree, lock, index, at, spent, cost, passed, runs, deaths>>

(* What a CLI call can come to.                                            *)
Responses == [structured : {"none", "valid", "invalid"},
              text : {"none", "prose", "valid", "invalid"}, is_error : BOOLEAN]

(* _extract_json_from_text: an object in the text, whatever its keys.      *)
Payload(r) ==
    IF r.structured # "none" THEN r.structured
    ELSE IF r.text \in {"valid", "invalid"} THEN r.text ELSE "none"

(* _payload_to_run_result: keys that AgentRunResult lacks raise, and the   *)
(* bead has failed.  A valid payload has the verdict of the agent.         *)
Result(b, payload, total) ==
    \/ /\ payload = "valid"
       /\ cost' = [cost EXCEPT ![b] = total]
       /\ \E next \in {"status", "idle"} : Go(b, next)     \* completed, or not
    \/ payload = "invalid" /\ Go(b, "idle") /\ UNCHANGED cost

Call(b) == spent' = [spent EXCEPT ![b] = @ + 1]

(* ClaudeCodeAgentRunner._exec_json_with_response.  Without a payload, and *)
(* with some text of a run that is no error, a second call is to put the   *)
(* text in form; otherwise the bead fails with the sentinel.               *)
ClaudeAnswers(b) ==
    /\ at[b] = "agent" /\ backend = "claude" /\ Call(b)
    /\ \/ Go(b, "idle") /\ UNCHANGED cost     \* timeout, exit status, no JSON
       \/ \E r \in Responses :
            \/ Result(b, Payload(r), spent'[b])
            \/ /\ Payload(r) = "none" /\ UNCHANGED cost
               /\ Go(b, IF r.text # "none" /\ ~r.is_error THEN "retry" ELSE "lost")
    /\ UNCHANGED <<serialize, backend, treeVars, wrote, passed, runs, deaths>>

(* Deviation: the telemetry is of the first call.                          *)
RetryUncounted(b) ==
    /\ at[b] = "retry" /\ Call(b)
    /\ \E r \in Responses : Result(b, Payload(r), spent[b])
    /\ UNCHANGED <<serialize, backend, treeVars, wrote, passed, runs, deaths>>

(* _retry_structured_output: a timeout raises without the sentinel, other  *)
(* failures return None; the costs of both calls are added up.             *)
RetryAnswers(b) ==
    /\ at[b] = "retry" /\ Call(b)
    /\ \/ Go(b, "idle") /\ UNCHANGED cost
       \/ \E r \in Responses : Result(b, Payload(r), spent[b] + 1)
       \/ Go(b, "lost") /\ UNCHANGED cost
    /\ UNCHANGED <<serialize, backend, treeVars, wrote, passed, runs, deaths>>

(* CodexAgentRunner._exec_json: the answer is the last message's file.     *)
CodexAnswers(b) ==
    /\ at[b] = "agent" /\ backend = "codex"
    /\ \/ Go(b, "idle") /\ UNCHANGED cost
       \/ \E payload \in {"valid", "invalid"} : Result(b, payload, 0)
    /\ UNCHANGED <<serialize, backend, treeVars, wrote, spent, passed, runs, deaths>>

-----------------------------------------------------------------------------
(* commit_all, of a bead that completed and, by the recovery bead, on      *)
(* behalf of one that gave no structured output.                           *)

(* _handle_recovery_completion, of an answer that the recovery bead makes; *)
(* without it the operator retries.  It does not wait for the tree.        *)
Recover(b) ==
    /\ at[b] = "lost"
    /\ \E next \in {"r_status", "idle"} : Go(b, next)
    /\ UNCHANGED <<serialize, backend, treeVars, wrote, spent, cost, passed, runs, deaths>>

OnBehalf == [status |-> "r_status", add |-> "r_add", diff |-> "r_diff", commit |-> "r_commit",
             head |-> "r_head"]
Step(b, pc) == at[b] \in {pc, OnBehalf[pc]}
GoOn(b, pc) == Go(b, IF at[b] \in Recovering THEN OnBehalf[pc] ELSE pc)

Status(b) ==
    /\ Step(b, "status")
    /\ IF dirty \cup index = {} THEN Go(b, "done") ELSE GoOn(b, "add")
    /\ UNCHANGED <<serialize, backend, treeVars, wrote, spent, cost, passed, runs, deaths>>

(* Deviation: git add -u.                                                  *)
AddTracked(b) ==
    /\ Step(b, "add")
    /\ index' = index \cup (dirty \ ({State} \cup NewFiles)) /\ dirty' = dirty \ index'
    /\ GoOn(b, "diff")
    /\ UNCHANGED <<serialize, backend, tree, lock, committed, wrote, spent, cost, passed, runs, deaths>>

(* git add of everything but the bead state.                               *)
Add(b) ==
    /\ Step(b, "add")
    /\ index' = index \cup (dirty \ {State}) /\ dirty' = dirty \cap {State}
    /\ GoOn(b, "diff")
    /\ UNCHANGED <<serialize, backend, tree, lock, committed, wrote, spent, cost, passed, runs, deaths>>

Diff(b) ==
    /\ Step(b, "diff")
    /\ IF index = {} THEN Go(b, "done") ELSE GoOn(b, "commit")
    /\ UNCHANGED <<serialize, backend, treeVars, wrote, spent, cost, passed, runs, deaths>>

Commit(b) ==
    /\ Step(b, "commit") /\ index # {}
    /\ committed' = committed \cup index /\ index' = {}
    /\ GoOn(b, "head")
    /\ UNCHANGED <<serialize, backend, tree, lock, dirty, wrote, spent, cost, passed, runs, deaths>>

(* git rev-parse HEAD: the last commit, of whoever made it.                *)
RevParse(b) ==
    /\ Step(b, "head") /\ Go(b, "done")
    /\ UNCHANGED <<serialize, backend, treeVars, wrote, spent, cost, passed, runs, deaths>>

(* A git command of commit_all fails, by itself, because another holds     *)
(* index.lock, or as there is nothing left to commit: the bead is blocked, *)
(* but a bead that is recovered is done.                                   *)
CommitFails(b) ==
    /\ \/ at[b] \in Committing /\ Go(b, "idle") /\ UNCHANGED passed
       \/ at[b] \in Recovering /\ Go(b, "done") /\ passed' = passed \cup {b}
    /\ UNCHANGED <<serialize, backend, treeVars, wrote, spent, cost, runs, deaths>>

(* The process and its agents die; later its leases expire, and its beads  *)
(* are ready.  A bead that waits for recovery still does.                  *)
KillScheduler ==
    /\ deaths < MaxAgentKills /\ deaths' = deaths + 1
    /\ \E b \in Beads : at[b] \notin NoThread
    /\ lock' = {}
    /\ at' = [b \in Beads |->
                 IF at[b] \in Recovering THEN "lost" ELSE IF Running(b) THEN "idle" ELSE at[b]]
    /\ UNCHANGED <<serialize, backend, tree, dirty, index, committed, wrote, spent, cost, passed, runs>>

Work(b) ==
    \/ StartBead(b) \/ LookForTree(b) \/ AddTree(b) \/ ProtectTree(b) \/ TreeFails(b)
    \/ Edit(b) \/ ClaudeAnswers(b) \/ RetryAnswers(b) \/ CodexAnswers(b)
    \/ Recover(b) \/ CommitFails(b)
    \/ Status(b) \/ Add(b) \/ Diff(b) \/ Commit(b) \/ RevParse(b)

AgentNext == KillScheduler \/ \E b \in Beads : Work(b)

AgentSpec == AgentInit /\ [][AgentNext]_agentVars

-----------------------------------------------------------------------------
(* What an agent changed for a bead that is done is in a commit of the     *)
(* branch, whoever made it, with runs in between that failed and commits   *)
(* of other beads of the tree; the exception is a bead that was recovered  *)
(* past a GitError.                                                        *)
WorkIsCommitted ==
    \A b \in wrote : at[b] = "done" /\ b \notin passed => b \in committed

(* Serialized beads commit no work that is half done: the commit of a bead *)
(* holds no change of one whose agent still works.  Only a recovery bead,  *)
(* which nothing serializes, can commit that.                              *)
HalfDoneStays ==
    [][\A b \in Beads : serialize /\ at[b] = "commit" /\ at'[b] = "head" =>
          \A o \in wrote : at[o] = "agent" => o \notin committed' \ committed]_agentVars

(* An agent works in a worktree that is there and keeps bead state out of  *)
(* git, and git worktree add never meets a directory made meanwhile by     *)
(* another thread, or left by a process that died.                         *)
WorktreeReady ==
    \A b \in Beads :
        /\ at[b] = "add_tree" => "target" \notin tree
        /\ at[b] \notin NoThread \cup {"ensure", "add_tree", "protect"} => {"target", "exclude"} \subseteq tree

(* The cost that telemetry gives for a bead with a result is that of all   *)
(* the calls its run made.                                                 *)
CostIsTotal ==
    \A b \in Beads :
        backend = "claude" /\ at[b] \in Committing => cost[b] = spent[b]
=============================================================================
