----------------------------- MODULE BeadStore -----------------------------
(***************************************************************************)
(* The bead records under .takt/beads and the questions the scheduler asks *)
(* of them.  A store is a function from ids to records; an id without a    *)
(* file has status "absent".  Fields a bead never changes (agent, kind,    *)
(* parent, feature tree) are constants indexed by the id, because a child  *)
(* id fixes them when it is allocated.                                     *)
(***************************************************************************)
EXTENDS Naturals, FiniteSets, Scopes

CONSTANTS
    NoId,            \* no parent, no feature root
    Parent,          \* Parent[b]: parent_id of b, or NoId
    Kind,            \* Kind[b]: how b came about, see Kinds
    Rank,            \* Rank[b]: the index of b among the ids <parent>-<suffix>[-n]
    CorrectiveIds,   \* ids that carry the corrective suffix, or descend from one that does
    PlannerIds,      \* planner-owned parents: planner agents, features, tree roots under an epic
    Files, Globs,
    MaxCorrective    \* scheduler.max_corrective_attempts

Statuses == {"absent", "ready", "in_progress", "blocked", "done"}
Reasons == {"none", "transient", "other"}
Kinds == {"task", "corrective", "recovery", "test", "docs", "review", "subtask"}

(* retried: the correctives named by last_corrective_retry_source and the  *)
(* "retried" events; human: needs_human_intervention; recov: a recovery    *)
(* bead was already made (auto_recovery_bead_id).                          *)
Bead == [status : Statuses, lease : BOOLEAN, deps : SUBSET Ids, reason : Reasons,
         touched : SUBSET Files, expected : SUBSET Files, globs : SUBSET Globs,
         retried : SUBSET Ids, human : BOOLEAN, recov : BOOLEAN]
Store == [Ids -> Bead]

NoBead == [status |-> "absent", lease |-> FALSE, deps |-> {}, reason |-> "none",
           touched |-> {}, expected |-> {}, globs |-> {},
           retried |-> {}, human |-> FALSE, recov |-> FALSE]
EmptyStore == [b \in Ids |-> NoBead]

ASSUME StoreAssumption ==
    /\ NoId \notin Ids
    /\ Parent \in [Ids -> Ids \cup {NoId}]
    /\ Tree \in [Ids -> Ids \cup {NoId}]
    /\ Kind \in [Ids -> Kinds]
    /\ \A b \in Ids : Tree[b] = NoId => ~Mutating(b)    \* only planner epics have no tree
    /\ \A b \in Ids : Parent[b] # b
    /\ \A b \in Ids :    \* as FOLLOWUP_AGENT_TYPES and the suffixes pair them
           /\ (Kind[b] = "test" => Agent[b] = "tester")
           /\ (Kind[b] = "docs" => Agent[b] = "documentation")
           /\ (Kind[b] = "review" => Agent[b] = "review")
    /\ Rank \in [Ids -> Nat]
    /\ \A b, c \in Ids :    \* an id says whose child it is, how, and which
           /\ Parent[b] = Parent[c] /\ Kind[b] = Kind[c] /\ Rank[b] = Rank[c]
           /\ Kind[b] # "task"
           => b = c
    /\ CorrectiveIds \subseteq Ids
    /\ \A b \in Ids : Kind[b] = "corrective" => b \in CorrectiveIds
    /\ \A b \in CorrectiveIds : Kind[b] = "corrective" \/ Parent[b] \in CorrectiveIds
    /\ MaxCorrective \in Nat

-----------------------------------------------------------------------------
Exists(d, b) == b \in Ids /\ d[b].status # "absent"
IsDone(d, b) == Exists(d, b) /\ d[b].status = "done"
DepsDone(d, r) == \A x \in r.deps : IsDone(d, x)

(* What a reader keeps of the files it listed: the beads in S, as they     *)
(* were; later writes do not reach it.                                     *)
View(d, S) == [b \in Ids |-> IF b \in S THEN d[b] ELSE NoBead]

ReadyBeadsUnchecked(d) == {b \in Ids : d[b].status = "ready" /\ ~d[b].lease}    \* deviation: no dependency check
ReadyBeads(d) == {b \in Ids : d[b].status = "ready" /\ ~d[b].lease /\ DepsDone(d, d[b])}
ActiveBeads(d) == {b \in Ids : d[b].status = "in_progress" /\ d[b].lease}
Leased(d) == {b \in Ids : d[b].lease}

-----------------------------------------------------------------------------
Children(p, kind) == {c \in Ids : Parent[c] = p /\ Kind[c] = kind}

(* Deviation: the base id is taken without looking whether it is used.     *)
BaseChild(d, p, kind, c) == c \in Children(p, kind) /\ Rank[c] = 1

(* allocate_child_bead_id: the first of <p>-<kind>, <p>-<kind>-2, ... that *)
(* has no file.                                                            *)
IsFreshChild(d, p, kind, c) ==
    /\ c \in Children(p, kind)
    /\ ~Exists(d, c)
    /\ \A o \in Children(p, kind) : Rank[o] < Rank[c] => Exists(d, o)

Verdicts(b) == Agent[b] \in {"tester", "review"}
IsCorrective(b) == b \in CorrectiveIds
CorrectiveChildren(d, p) == {c \in Children(p, "corrective") : Exists(d, c)}

(* The corrective ids are compared as strings and searched as substrings   *)
(* of "Requeued blocked bead after corrective bead <id> completed", so the *)
(* first id <p>-corrective is found in the event of any later one.         *)
AlreadyRetried(r, c) ==
    \/ c \in r.retried
    \/ \E o \in r.retried : Parent[o] = Parent[c] /\ Rank[c] = 1

CanPlanCorrective(b, r) ==
    ~IsCorrective(b) /\ Agent[b] # "investigator" /\ ~r.recov

(* What becomes of a blocked bead b whose record is r.                     *)
OpenCorrectives(d, b) ==
    {c \in CorrectiveChildren(d, b) : d[c].status \in {"ready", "in_progress"}}

LatestDone(d, b) ==
    LET done == {c \in CorrectiveChildren(d, b) : d[c].status = "done"}
    IN {c \in done : \A o \in done : Rank[o] <= Rank[c]}

DecisionWithin(budget, d, b, r) ==
    LET children == CorrectiveChildren(d, b)
        latest == LatestDone(d, b)
        attempts == Cardinality(children)
        mayPlan == CanPlanCorrective(b, r)
    IN CASE OpenCorrectives(d, b) # {} -> "leave"
         [] OpenCorrectives(d, b) = {} /\ latest # {} ->
                CASE \E c \in latest : ~AlreadyRetried(r, c) -> "retry"
                  [] (\A c \in latest : AlreadyRetried(r, c)) /\ attempts < budget /\ mayPlan -> "create"
                  [] OTHER -> IF r.human THEN "leave" ELSE "escalate"
         [] OTHER ->
                CASE children = {} /\ mayPlan -> "create"
                  [] ~(children = {} /\ mayPlan) /\ attempts >= budget /\ ~r.human -> "escalate"
                  [] OTHER -> "leave"

(* Deviation: one corrective less than the budget; only the budget counts. *)
DecisionUnderBudget(d, b, r) == DecisionWithin(MaxCorrective - 1, d, b, r)
DecisionByBudget(d, b, r) ==
    IF Cardinality(CorrectiveChildren(d, b)) < MaxCorrective /\ CanPlanCorrective(b, r)
    THEN "create" ELSE "leave"

CorrectiveDecision(d, b, r) == DecisionWithin(MaxCorrective, d, b, r)

(* create_bead's record of a child: status ready, no lease, no history.    *)
NewBead(deps, touched, expected, globs) ==
    [NoBead EXCEPT !.status = "ready", !.deps = deps, !.touched = touched,
                   !.expected = expected, !.globs = globs]

TouchedOrExpected(r) == IF r.touched # {} THEN r.touched ELSE r.expected

CorrectiveBead(r) == NewBead({}, TouchedOrExpected(r), r.expected, r.globs)
RecoveryBead(r) == NewBead({}, {}, r.expected, r.globs)
FollowupBead(r, deps) == NewBead(deps, r.touched, TouchedOrExpected(r), r.globs)

RequeuedUnrecorded(r, c) == [r EXCEPT !.status = "ready", !.reason = "none"]    \* deviation: c is forgotten
Requeued(r, c) == [r EXCEPT !.status = "ready", !.reason = "none", !.retried = @ \cup {c}]

=============================================================================
