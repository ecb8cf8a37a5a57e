------------------------------ MODULE BeadGraph -------------------------------
(***************************************************************************)
(* How the graph of the beads is edited: takt plan --write, takt bead      *)
(* create, update and delete, and a scheduler, all at the same time on     *)
(* files that no lock guards.  Each loads a bead, changes its copy and     *)
(* saves the copy, after looking whether the dependencies are stored.      *)
(***************************************************************************)
EXTENDS Naturals, Sequences, FiniteSets, FiniteSetsExt

CONSTANTS
    Operators,      \* command lines, each with one command at a time
    Workers,        \* threads of takt run
    Plans,          \* the proposals: the feature, then its tree in preorder,
                    \* each [title, under, after, valid]
    MaxBeads,       \* bound: on the beads ever created
    MaxCommands,    \* bound: on the commands of the operators
    MaxBreaks       \* bound: on the processes killed and the commits that fail

Actors == Operators \cup Workers
Ids == 1..MaxBeads
Nowhere == 0        \* the id of no bead: no parent, or an unknown title

ASSUME BeadGraphAssumption ==
    /\ MaxBeads \in Nat /\ MaxCommands \in Nat /\ MaxBreaks \in Nat
    /\ \A p \in Plans :
          /\ Len(p) \in Nat \ {0} /\ DOMAIN p = 1..Len(p)
          /\ \A i \in DOMAIN p : p[i].under \in 0..(i - 1)

VARIABLES
    graph,      \* the bead stored under each id
    named,      \* how many ids were given out
    act,        \* of each actor, what it is doing
    commands, breaks,
    removed,    \* history: the ids whose file was removed
    torn,       \* history: the ids whose removal was killed or had company
    planned     \* history: of each bead, what a plan that had no company wants done first

graphVars == <<graph, named, act, commands, breaks, removed, torn, planned>>

Node(kind, parent, deps, status) == [kind |-> kind, parent |-> parent, deps |-> deps, status |-> status]
NoNode == Node("none", Nowhere, {}, "open")

Act(at, id, copy, then) ==
    [at |-> at, id |-> id, copy |-> copy, then |-> then, plan |-> <<>>, ids |-> <<>>, linked |-> 0,
     alone |-> FALSE]
AtRest == Act("rest", Nowhere, NoNode, "rest")

(* No bead, or two created ones of which the second waits for the first.   *)
GraphInit ==
    /\ \/ named = 0 /\ graph = [i \in Ids |-> NoNode]
       \/ /\ named = 2 /\ MaxBeads >= 2
          /\ graph = [i \in Ids |-> IF i > 2 THEN NoNode
                                    ELSE Node("task", Nowhere, {j \in Ids : j < i}, "ready")]
    /\ act = [a \in Actors |-> AtRest]
    /\ commands = 0 /\ breaks = 0
    /\ removed = {} /\ torn = {} /\ planned = [i \in Ids |-> {}]

-----------------------------------------------------------------------------
Stored == {i \in Ids : graph[i] # NoNode}
ChildrenOf(i) == {j \in Stored : graph[j].parent = i}
Done(i) == i \in Stored /\ graph[i].status = "done"

(* An actor takes up something; one whose agent works touches no file.     *)
(* Whether it has company is noted of a plan and of a delete.              *)
Silent(a) == act[a].at \in {"rest", "work"}
Becoming(a, c) ==
    [b \in Actors |->
        IF b = a THEN [c EXCEPT !.alone = c.at \in {"plan", "unlink"} /\ \A d \in Actors \ {a} : Silent(d)]
        ELSE [act[b] EXCEPT !.alone = FALSE]]
TakeUp(a, c) == act' = Becoming(a, c)
GoOn(a, at) == act' = [act EXCEPT ![a].at = at]
GiveUp(a) == act' = [act EXCEPT ![a] = AtRest]

FirstSteps(a) == a \in Operators /\ Silent(a) /\ commands < MaxCommands /\ commands' = commands + 1

-----------------------------------------------------------------------------
(* save_bead: the dependencies are checked, then the file is replaced; it  *)
(* is made anew if it is gone by now.  The check that fails ends a command *)
(* or the run.                                                             *)
(* Deviation for the mutants: a bead is saved as it is.                    *)
CheckNothing(a) ==
    /\ act[a].at = "save" /\ GoOn(a, "write")
    /\ UNCHANGED <<graph, named, commands, breaks, removed, torn, planned>>

CheckDependencies(a) ==
    /\ act[a].at = "save"
    /\ IF act[a].copy.deps \subseteq Stored THEN GoOn(a, "write") ELSE GiveUp(a)
    /\ UNCHANGED <<graph, named, commands, breaks, removed, torn, planned>>

(* The file is then committed; if git fails, after 30 s at most, the copy  *)
(* is written once more, with that failure in its history.                 *)
WriteNode(a) ==
    /\ act[a].at \in {"write", "rewrite"}
    /\ graph' = [graph EXCEPT ![act[a].id] = act[a].copy]
    /\ \/ /\ IF act[a].then = "rest" THEN GiveUp(a) ELSE GoOn(a, act[a].then)
          /\ UNCHANGED breaks
       \/ /\ act[a].at = "write" /\ breaks < MaxBreaks
          /\ breaks' = breaks + 1 /\ GoOn(a, "rewrite")
    /\ UNCHANGED <<named, commands, removed, torn, planned>>

(* create_bead loads the parent and takes a new id.                        *)
CreateNode(a) ==
    /\ FirstSteps(a)
    /\ named < MaxBeads /\ named' = named + 1
    /\ \E parent \in Stored \cup {Nowhere}, deps \in SUBSET Ids :
          /\ Cardinality(deps) <= 1
          /\ TakeUp(a, Act("save", named', Node("task", parent, deps, "ready"), "rest"))
    /\ UNCHANGED <<graph, breaks, removed, torn, planned>>

(* update, label, unlabel and set-priority: the copy of the moment is      *)
(* saved, with another status or with what is not modelled here.           *)
UpdateNode(a) ==
    /\ FirstSteps(a)
    /\ \E i \in Stored : \E s \in {graph[i].status, "ready", "done"} :
          TakeUp(a, Act("save", i, [graph[i] EXCEPT !.status = s], "rest"))
    /\ UNCHANGED <<graph, named, breaks, removed, torn, planned>>

-----------------------------------------------------------------------------
(* delete_bead: the checks, the file, and then the dependents.             *)
Protected == {"in_progress", "done", "handed_off"}

DeleteNode(a) ==
    /\ FirstSteps(a)
    /\ \E i \in Stored, force \in BOOLEAN :
          /\ ChildrenOf(i) = {}
          /\ graph[i].status \in Protected => force
          /\ TakeUp(a, Act("unlink", i, graph[i], "rest"))
    /\ UNCHANGED <<graph, named, breaks, removed, torn, planned>>

Unlink(a) ==
    /\ act[a].at = "unlink"
    /\ IF act[a].id \notin Stored THEN GiveUp(a) /\ UNCHANGED <<graph, removed>>
       ELSE /\ graph' = [graph EXCEPT ![act[a].id] = NoNode]
            /\ removed' = removed \cup {act[a].id}
            /\ GoOn(a, "list")
    /\ UNCHANGED <<named, commands, breaks, torn, planned>>

(* _cleanup_deleted_dependency_references lists all beads, then writes the *)
(* dependents one by one, without a check.                                 *)
ListDependents(a) ==
    /\ act[a].at = "list"
    /\ act' = [act EXCEPT ![a].at = "clean", ![a].copy = graph]
    /\ UNCHANGED <<graph, named, commands, breaks, removed, torn, planned>>

DependentsLeft(a) == {i \in Ids : act[a].id \in act[a].copy[i].deps}

CleanDependent(a) ==
    /\ act[a].at = "clean"
    /\ \E i \in DependentsLeft(a) :
          LET cleaned == [act[a].copy[i] EXCEPT !.deps = @ \ {act[a].id}]
          IN  /\ graph' = [graph EXCEPT ![i] = cleaned]
              /\ act' = [act EXCEPT ![a].copy[i] = cleaned]
    /\ UNCHANGED <<named, commands, breaks, removed, torn, planned>>

DeleteEnd(a) ==
    /\ act[a].at = "clean" /\ DependentsLeft(a) = {}
    /\ torn' = IF act[a].alone THEN torn ELSE torn \cup {act[a].id}
    /\ GiveUp(a)
    /\ UNCHANGED <<graph, named, commands, breaks, removed, planned>>

-----------------------------------------------------------------------------
(* persist_plan: the epic, the feature and its tree, in preorder.  The ids *)
(* of what was created are in act[a].ids, the epic first.                  *)
PlanStart(a) ==
    /\ FirstSteps(a)
    /\ \E p \in Plans :
          /\ \A i \in DOMAIN p : p[i].valid
          /\ TakeUp(a, [AtRest EXCEPT !.at = "plan", !.plan = p])
    /\ UNCHANGED <<graph, named, breaks, removed, torn, planned>>

PlanNode(c) ==
    LET i == Len(c.ids)
    IN  IF i = 0 THEN Node("epic", Nowhere, {}, "done")
        ELSE IF i = 1 THEN Node("feature", c.ids[1], {}, "done")
        ELSE Node("task", c.ids[c.plan[i].under + 1], {}, "ready")

PlanCreate(a) ==
    LET c == act[a]
        node == PlanNode(c)
    IN  /\ c.at = "plan" /\ Len(c.ids) <= Len(c.plan)
        /\ IF node.parent \notin Stored \cup {Nowhere} THEN GiveUp(a) /\ UNCHANGED named
           ELSE /\ named < MaxBeads /\ named' = named + 1
                /\ act' = [act EXCEPT ![a] = [@ EXCEPT !.at = "save", !.then = "plan", !.id = named',
                                                       !.copy = node, !.ids = Append(c.ids, named')]]
        /\ UNCHANGED <<graph, commands, breaks, removed, torn, planned>>

(* title_to_id: of two with one title the last; an unknown one stays.      *)
IdOfTitle(c, t) ==
    LET titled == {i \in DOMAIN c.plan : c.plan[i].title = t}
    IN  IF titled # {} THEN c.ids[Max(titled) + 1] ELSE IF t = "EPIC" THEN c.ids[1] ELSE Nowhere

(* Deviation for the mutants: only the beads created before are looked up. *)
DepsSoFar(c, i) == {d \in {IdOfTitle(c, t) : t \in c.plan[i].after} : d < c.ids[i + 1]}

DepsOf(c, i) == {IdOfTitle(c, t) : t \in c.plan[i].after}

(* The second pass: each bead of the tree is loaded, which may be changed  *)
(* or gone by now, and saved with its dependencies.                        *)
PlanLink(a) ==
    LET c == act[a]
        i == IF c.linked = 0 THEN 2 ELSE c.linked + 1
    IN  /\ c.at = "plan" /\ Len(c.ids) = Len(c.plan) + 1 /\ i <= Len(c.plan)
        /\ IF c.ids[i + 1] \notin Stored THEN GiveUp(a)
           ELSE act' = [act EXCEPT ![a] = [@ EXCEPT !.at = "save", !.linked = i, !.id = c.ids[i + 1],
                                   !.copy = [graph[c.ids[i + 1]] EXCEPT !.deps = DepsOf(c, i)]]]
        /\ UNCHANGED <<graph, named, commands, breaks, removed, torn, planned>>

(* What a bead waits for, by the plan: the bead each title names.          *)
After(c, i) ==
    {c.ids[j + 1] : j \in {k \in DOMAIN c.plan :
        /\ c.plan[k].title \in c.plan[i].after
        /\ \A l \in DOMAIN c.plan : c.plan[l].title = c.plan[k].title => l <= k}}
Wanted(c, b) == UNION {After(c, i) : i \in {j \in 2..Len(c.plan) : c.ids[j + 1] = b}}

PlanEnd(a) ==
    LET c == act[a]
    IN  /\ c.at = "plan" /\ Len(c.ids) = Len(c.plan) + 1 /\ (c.linked = Len(c.plan) \/ Len(c.plan) = 1)
        /\ planned' = IF c.alone THEN [b \in Ids |-> Wanted(c, b) \cup planned[b]] ELSE planned
        /\ GiveUp(a)
        /\ UNCHANGED <<graph, named, commands, breaks, removed, torn>>

-----------------------------------------------------------------------------
(* takt run, as far as it edits the graph.  It lists the beads and then    *)
(* looks for what the ready ones depend on: one that waits is left alone,  *)
(* and one whose dependency is not stored is written, without a check,     *)
(* with a warning in its history, if that is not there yet.                *)
ListReady(w) ==
    /\ act[w].at = "rest"
    /\ \E i \in Stored :
          /\ graph[i].status = "ready"
          /\ TakeUp(w, Act("look", i, graph[i], "rest"))
    /\ UNCHANGED <<graph, named, commands, breaks, removed, torn, planned>>

RecordMissing(w) ==
    /\ act[w].at = "look" /\ \E d \in act[w].copy.deps : d \notin Stored
    /\ GoOn(w, "write")
    /\ UNCHANGED <<graph, named, commands, breaks, removed, torn, planned>>

PassOver(w) ==
    /\ act[w].at = "look" /\ \E d \in act[w].copy.deps : ~Done(d)
    /\ GiveUp(w)
    /\ UNCHANGED <<graph, named, commands, breaks, removed, torn, planned>>

(* A thread saves its copy before the agent works and again with the       *)
(* result.                                                                 *)
StartWork(w) ==
    /\ act[w].at = "look" /\ \A d \in act[w].copy.deps : Done(d)
    /\ act' = [act EXCEPT ![w] = [@ EXCEPT !.at = "save", !.then = "work", !.copy.status = "in_progress"]]
    /\ UNCHANGED <<graph, named, commands, breaks, removed, torn, planned>>

EndWork(w) ==
    /\ act[w].at = "work"
    /\ \E s \in {"done", "blocked"} :
          TakeUp(w, [act[w] EXCEPT !.at = "save", !.then = "rest", !.copy.status = s])
    /\ UNCHANGED <<graph, named, commands, breaks, removed, torn, planned>>

(* expire_stale_leases, whether or not a worker holds the bead.            *)
RequeueNode(w) ==
    /\ act[w].at = "rest"
    /\ \E i \in Stored :
          /\ graph[i].status = "in_progress"
          /\ TakeUp(w, Act("save", i, [graph[i] EXCEPT !.status = "ready"], "rest"))
    /\ UNCHANGED <<graph, named, commands, breaks, removed, torn, planned>>

Broken(a) ==
    /\ act[a].at # "rest"
    /\ breaks < MaxBreaks /\ breaks' = breaks + 1
    /\ torn' = IF act[a].at \in {"list", "clean"} THEN torn \cup {act[a].id} ELSE torn
    /\ GiveUp(a)
    /\ UNCHANGED <<graph, named, commands, removed, planned>>

GraphNext ==
    \/ \E a \in Actors : CheckDependencies(a) \/ WriteNode(a) \/ Broken(a)
    \/ \E a \in Operators :
          \/ CreateNode(a) \/ UpdateNode(a)
          \/ DeleteNode(a) \/ Unlink(a) \/ ListDependents(a) \/ CleanDependent(a) \/ DeleteEnd(a)
          \/ PlanStart(a) \/ PlanCreate(a) \/ PlanLink(a) \/ PlanEnd(a)
    \/ \E w \in Workers :
          \/ ListReady(w) \/ RecordMissing(w) \/ PassOver(w)
          \/ StartWork(w) \/ EndWork(w) \/ RequeueNode(w)

GraphSpec == GraphInit /\ [][GraphNext]_graphVars

-----------------------------------------------------------------------------
(* Whatever commands and runs held copies of beads, a stored bead depends  *)
(* on a bead that is not stored only while that one is being deleted, or   *)
(* if the delete was killed or another command was at work beside it.      *)
DependenciesExist ==
    \A i \in Stored : \A d \in graph[i].deps \ Stored :
        \/ d \in torn
        \/ \E a \in Operators : act[a].at \in {"list", "clean"} /\ act[a].id = d

(* A bead of a plan that was written without company is started only when  *)
(* the beads that the plan names before it are done, or were deleted.      *)
PlanOrder ==
    [][\A w \in Workers :
          (act[w].at = "look" /\ act'[w].at = "save") =>
              \A d \in planned[act[w].id] : Done(d) \/ d \in removed]_act
=============================================================================
