----------------------------- MODULE GraphProofs ------------------------------
(***************************************************************************)
(* That no dependency dangles but where a delete was killed or had         *)
(* company, and that beads are started in the order of their plan, for     *)
(* every number of commands, workers, plans, beads and breaks.             *)
(***************************************************************************)
EXTENDS BeadGraph, TLAPS

-----------------------------------------------------------------------------
(* The invariant.  Types are given by the fields a record has.             *)
IsNode(n) == n = Node(n.kind, n.parent, n.deps, n.status)
IsAct(r) ==
    /\ r = [at |-> r.at, id |-> r.id, copy |-> r.copy, then |-> r.then, plan |-> r.plan, ids |-> r.ids,
            linked |-> r.linked, alone |-> r.alone]
    /\ r.then \in {"rest", "work", "plan"}

IsGraph(g) ==
    /\ g = [i \in Ids |-> g[i]]
    /\ \A i \in Ids : IsNode(g[i]) /\ (g[i].kind = "none" => g[i] = NoNode)
Shape ==
    /\ IsGraph(graph)
    /\ act = [a \in Actors |-> act[a]] /\ \A a \in Actors : IsAct(act[a])

(* What is alone has no company.                                           *)
Company == \A a, b \in Actors : a # b /\ act[b].alone = TRUE => Silent(a)

(* A dependency that an actor has in hand is stored, or another actor is   *)
(* deleting it, which then has company and will end with it torn.          *)
Removing(a, d) == act[a].at \in {"list", "clean"} /\ act[a].id = d
Safe(a, d) == d \in Stored \/ d \in torn \/ \E b \in Operators : b # a /\ Removing(b, d)

Copying(a) ==
    act[a].at \in {"look", "save", "work", "write", "rewrite"} => IsNode(act[a].copy) /\ act[a].copy.kind # "none"
Writing(a) == act[a].at \in {"look", "write", "rewrite"} => \A d \in act[a].copy.deps : Safe(a, d)
Cleaning(a) ==
    act[a].at = "clean" =>
        /\ IsGraph(act[a].copy)
        /\ \A i \in Ids : \A d \in act[a].copy[i].deps : d = act[a].id \/ Safe(a, d)
        /\ act[a].alone = TRUE => act[a].copy = graph
Own(a) == Copying(a) /\ Writing(a) /\ Cleaning(a)

GInv == Shape /\ Company /\ (\A a \in Actors : Own(a)) /\ DependenciesExist

-----------------------------------------------------------------------------
(* Nobody holds anything at first.                                         *)
LEMMA GraphInitially == GraphInit => GInv
<1> SUFFICES ASSUME GraphInit PROVE GInv
  OBVIOUS
<1>1. \A a \in Actors : act[a] = AtRest
  BY DEF GraphInit
<1> DEFINE Below(i) == {j \in Ids : j < i}
           Task(i) == Node("task", Nowhere, Below(i), "ready")
<1>2. /\ \A i \in Ids : graph[i] = NoNode \/ graph[i] = Task(i)
      /\ \A i \in Ids : graph[i] = Task(i) => \A d \in Below(i) : graph[d] = Task(d)
  <2>1. CASE graph = [i \in Ids |-> NoNode]
    BY <2>1 DEF Node, NoNode
  <2>2. CASE /\ MaxBeads >= 2
             /\ graph = [i \in Ids |-> IF i > 2 THEN NoNode ELSE Task(i)]
    <3>1. \A i \in Ids : graph[i] = Task(i) => ~(i > 2)
      BY <2>2 DEF Node, NoNode
    <3> QED
      BY <2>2, <3>1, BeadGraphAssumption DEF Ids
  <2> QED
    BY <2>1, <2>2 DEF GraphInit
<1>3. Shape
  <2>1. graph = [i \in Ids |-> graph[i]] /\ act = [a \in Actors |-> act[a]]
    BY DEF GraphInit
  <2>2. \A i \in Ids : IsNode(graph[i]) /\ (graph[i].kind = "none" => graph[i] = NoNode)
    <3> SUFFICES ASSUME NEW i \in Ids
                 PROVE  IsNode(graph[i]) /\ (graph[i].kind = "none" => graph[i] = NoNode)
      OBVIOUS
    <3> HIDE DEF Below
    <3>1. graph[i] = NoNode \/ graph[i] = Task(i)
      BY <1>2
    <3> QED
      BY <3>1 DEF IsNode, Node, NoNode
  <2>3. IsGraph(graph)
    BY <2>1, <2>2 DEF IsGraph
  <2> QED
    BY <1>1, <2>1, <2>3 DEF Shape, IsAct, AtRest, Act
<1>4. Company /\ \A a \in Actors : Own(a)
  BY <1>1 DEF Company, Silent, Own, Copying, Writing, Cleaning, AtRest, Act
<1>5. DependenciesExist
  <2>1. \A i \in Stored : \A d \in graph[i].deps : d \in Stored
    <3> SUFFICES ASSUME NEW i \in Stored, NEW d \in graph[i].deps PROVE d \in Stored
      OBVIOUS
    <3>1. i \in Ids /\ graph[i] = Task(i)
      BY <1>2 DEF Stored
    <3>2. d \in Below(i)
      BY <3>1 DEF Node
    <3>3. d \in Ids /\ graph[d] = Task(d)
      BY <1>2, <3>1, <3>2
    <3>4. Task(d).kind = "task" /\ NoNode.kind = "none"
      BY DEF Node, NoNode
    <3> QED
      BY <3>3, <3>4 DEF Stored
  <2> QED
    BY <2>1 DEF DependenciesExist
<1> QED
  BY <1>3, <1>4, <1>5 DEF GInv

-----------------------------------------------------------------------------
(* What one actor does leaves what the others hold as it was, if what it   *)
(* removes it is seen to remove.                                           *)
Untouched(a) ==
    \A x \in Actors \ {a} :
        /\ act'[x].at = act[x].at /\ act'[x].id = act[x].id /\ act'[x].copy = act[x].copy
        /\ act'[x].alone = TRUE => act[x].alone = TRUE

LEMMA OthersKeep ==
    ASSUME GInv, NEW a \in Actors, Untouched(a),
           graph' = graph \/ ~Silent(a),
           \A d \in Stored \ Stored' : a \in Operators /\ Removing(a, d)',
           torn \subseteq torn',
           \/ act[a].alone = TRUE
           \/ \A d : Removing(a, d) => Removing(a, d)' \/ d \in torn'
    PROVE  \A x \in Actors \ {a} : Own(x)'
<1> SUFFICES ASSUME NEW x \in Actors \ {a} PROVE Own(x)'
  OBVIOUS
<1>1. Own(x) /\ Company
  BY DEF GInv
<1>2. Copying(x)'
  BY <1>1 DEF Own, Copying, Untouched
<1>3. CASE Silent(x)
  BY <1>2, <1>3 DEF Own, Writing, Cleaning, Silent, Untouched
<1>4. CASE ~Silent(x)
  <2>1. \A d : Removing(a, d) => Removing(a, d)' \/ d \in torn'
    BY <1>1, <1>4 DEF Company
  <2>2. \A d : Safe(x, d) => Safe(x, d)'
    <3> SUFFICES ASSUME NEW d, Safe(x, d) PROVE Safe(x, d)'
      OBVIOUS
    <3>1. CASE d \in Stored
      BY <3>1 DEF Safe
    <3>2. CASE d \in torn
      BY <3>2 DEF Safe
    <3>3. CASE \E b \in Operators : b # x /\ Removing(b, d)
      <4>1. PICK b \in Operators : b # x /\ Removing(b, d)
        BY <3>3
      <4>2. CASE b = a
        BY <4>1, <4>2, <2>1 DEF Safe
      <4>3. CASE b # a
        BY <4>1, <4>3 DEF Safe, Removing, Untouched, Actors
      <4> QED
        BY <4>2, <4>3
    <3> QED
      BY <3>1, <3>2, <3>3 DEF Safe
  <2>3. Writing(x)'
    BY <1>1, <2>2 DEF Own, Writing, Untouched
  <2>4. Cleaning(x)'
    <3>1. act'[x].alone = TRUE => act[x].alone = TRUE /\ graph' = graph
      BY <1>1 DEF Untouched, Company
    <3> QED
      BY <1>1, <2>2, <3>1 DEF Own, Cleaning, Untouched
  <2> QED
    BY <1>2, <2>3, <2>4 DEF Own
<1> QED
  BY <1>3, <1>4

-----------------------------------------------------------------------------
(* Who takes something up is in company of all but the silent, and takes   *)
(* the solitude of the others; who goes on takes no solitude up.           *)
Typed(v) == v = [a \in Actors |-> v[a]] /\ \A a \in Actors : IsAct(v[a])
Moved(a) == Untouched(a) /\ Typed(act)' /\ Company'

LEMMA TakesUp ==
    ASSUME GInv, NEW a \in Actors, NEW r, IsAct(r), Silent(a), TakeUp(a, r)
    PROVE  /\ Moved(a)
           /\ act'[a].at = r.at /\ act'[a].id = r.id /\ act'[a].copy = r.copy
<1> DEFINE alone == r.at \in {"plan", "unlink"} /\ \A d \in Actors \ {a} : Silent(d)
<1>1. Shape
  BY DEF GInv
<1>2. act' = [b \in Actors |-> IF b = a THEN [r EXCEPT !.alone = alone]
                               ELSE [act[b] EXCEPT !.alone = FALSE]]
  BY DEF TakeUp, Becoming
<1> HIDE DEF alone
<1>3. /\ act'[a].at = r.at /\ act'[a].id = r.id /\ act'[a].copy = r.copy /\ act'[a].alone = alone
      /\ IsAct(act'[a])
  BY <1>2 DEF IsAct
<1>4. \A b \in Actors \ {a} : /\ act'[b].at = act[b].at /\ act'[b].id = act[b].id
                              /\ act'[b].copy = act[b].copy /\ act'[b].alone = FALSE
                              /\ IsAct(act'[b])
  <2> SUFFICES ASSUME NEW b \in Actors \ {a}
               PROVE  /\ act'[b].at = act[b].at /\ act'[b].id = act[b].id
                      /\ act'[b].copy = act[b].copy /\ act'[b].alone = FALSE
                      /\ IsAct(act'[b])
    OBVIOUS
  <2>1. IsAct(act[b])
    BY <1>1 DEF Shape
  <2>2. act'[b] = [act[b] EXCEPT !.alone = FALSE]
    BY <1>2
  <2>3. PICK c : c = act[b]
    OBVIOUS
  <2>4. act'[b] = [at |-> c.at, id |-> c.id, copy |-> c.copy, then |-> c.then, plan |-> c.plan,
                   ids |-> c.ids, linked |-> c.linked, alone |-> FALSE]
    BY <2>1, <2>2, <2>3 DEF IsAct
  <2> QED
    BY <2>1, <2>3, <2>4 DEF IsAct
<1>5. Untouched(a) /\ Typed(act)'
  BY <1>2, <1>3, <1>4 DEF Untouched, Typed
<1>6. Company'
  <2> SUFFICES ASSUME NEW x \in Actors, NEW y \in Actors, x # y, act'[y].alone = TRUE
               PROVE  Silent(x)'
    BY DEF Company
  <2>1. y = a /\ alone = TRUE
    BY <1>3, <1>4
  <2>2. Silent(x)
    BY <2>1 DEF alone
  <2> QED
    BY <2>1, <2>2, <1>4 DEF Silent
<1> QED
  BY <1>3, <1>5, <1>6 DEF Moved

LEMMA GoesOn ==
    ASSUME GInv, NEW a \in Actors, NEW r, IsAct(r), ~Silent(a) \/ r.at = "rest",
           r.alone = TRUE => act[a].alone = TRUE, act' = [act EXCEPT ![a] = r]
    PROVE  Moved(a) /\ act'[a] = r
<1>1. Shape /\ Company
  BY DEF GInv
<1>2. act'[a] = r /\ \A b \in Actors \ {a} : act'[b] = act[b]
  BY <1>1 DEF Shape
<1>3. Untouched(a) /\ Typed(act)'
  <2>1. act' = [b \in Actors |-> act'[b]]
    BY <1>1 DEF Shape
  <2> QED
    BY <1>1, <1>2, <2>1 DEF Shape, Untouched, Typed
<1>4. Company'
  BY <1>1, <1>2 DEF Company, Silent
<1> QED
  BY <1>2, <1>3, <1>4 DEF Moved

(* A step that leaves the files alone keeps all but what its actor holds.  *)
LEMMA CalmStep ==
    ASSUME GInv, NEW a \in Actors, Moved(a), graph' = graph, torn \subseteq torn', Own(a)',
           \A d : Removing(a, d) => Removing(a, d)' \/ d \in torn'
    PROVE  GInv'
<1>1. Shape'
  BY DEF Moved, Typed, GInv, Shape
<1>2. Company' /\ Untouched(a)
  BY DEF Moved
<1>3. Stored' = Stored
  BY DEF Stored
<1>4. \A x \in Actors : Own(x)'
  BY <1>2, <1>3, OthersKeep
<1>5. DependenciesExist'
  <2> SUFFICES ASSUME NEW i \in Stored, NEW d \in graph[i].deps \ Stored, d \notin torn'
               PROVE  \E b \in Operators : Removing(b, d)'
    BY <1>3 DEF DependenciesExist, Removing
  <2>1. PICK b \in Operators : Removing(b, d)
    BY DEF GInv, DependenciesExist, Removing
  <2>2. b # a => Removing(b, d)'
    BY <1>2, <2>1 DEF Removing, Untouched, Actors
  <2> QED
    BY <2>1, <2>2
<1> QED
  BY <1>1, <1>2, <1>4, <1>5 DEF GInv

-----------------------------------------------------------------------------
(* The copies that are in hand are those of beads.                         *)
LEMMA StoredAreNodes ==
    ASSUME GInv, NEW i \in Stored
    PROVE  i \in Ids /\ IsNode(graph[i]) /\ graph[i].kind # "none"
<1>1. i \in Ids /\ graph[i] # NoNode
  BY DEF Stored
<1> QED
  BY <1>1 DEF GInv, Shape, IsGraph

LEMMA SetStatus ==
    ASSUME NEW n, NEW s, IsNode(n), n.kind # "none"
    PROVE  /\ IsNode([n EXCEPT !.status = s]) /\ [n EXCEPT !.status = s].kind # "none"
           /\ [n EXCEPT !.status = s].deps = n.deps
<1> PICK k, p, d, t : n = Node(k, p, d, t) /\ k = n.kind
  BY DEF IsNode
<1> QED
  BY DEF IsNode, Node

LEMMA SetDeps ==
    ASSUME NEW n, NEW s, IsNode(n), n.kind # "none"
    PROVE  /\ IsNode([n EXCEPT !.deps = s]) /\ [n EXCEPT !.deps = s].kind # "none"
           /\ [n EXCEPT !.deps = s].deps = s
<1> PICK k, p, d, t : n = Node(k, p, d, t) /\ k = n.kind
  BY DEF IsNode
<1> QED
  BY DEF IsNode, Node

(* An actor takes up something other than the writing or the cleaning.     *)
LEMMA Begins ==
    ASSUME GInv, NEW a \in Actors, NEW r, IsAct(r), Silent(a), TakeUp(a, r),
           graph' = graph, torn' = torn,
           \/ r.at = "save" /\ IsNode(r.copy) /\ r.copy.kind # "none"
           \/ r.at \in {"plan", "unlink"}
    PROVE  GInv'
<1>1. Moved(a) /\ act'[a].at = r.at /\ act'[a].copy = r.copy
  BY TakesUp
<1>2. Own(a)'
  BY <1>1 DEF Own, Copying, Writing, Cleaning
<1>3. \A d : ~Removing(a, d)
  BY DEF Silent, Removing
<1> QED
  BY <1>1, <1>2, <1>3, CalmStep

LEMMA OfAct ==
    ASSUME NEW at, NEW id, NEW copy, NEW then \in {"rest", "work", "plan"}
    PROVE  /\ IsAct(Act(at, id, copy, then))
           /\ Act(at, id, copy, then).at = at /\ Act(at, id, copy, then).copy = copy
  BY DEF IsAct, Act

LEMMA Operations ==
    ASSUME GInv, NEW a \in Operators,
           CreateNode(a) \/ UpdateNode(a) \/ DeleteNode(a) \/ PlanStart(a)
    PROVE  GInv'
<1>1. a \in Actors
  BY DEF Actors
<1>2. CASE CreateNode(a)
  <2>1. PICK parent, deps :
            TakeUp(a, Act("save", named', Node("task", parent, deps, "ready"), "rest"))
    BY <1>2 DEF CreateNode
  <2>2. IsNode(Node("task", parent, deps, "ready")) /\ Node("task", parent, deps, "ready").kind # "none"
    BY DEF IsNode, Node
  <2> QED
    BY <1>1, <1>2, <2>1, <2>2, OfAct, Begins DEF CreateNode, FirstSteps
<1>3. CASE UpdateNode(a)
  <2>0. PICK i \in Stored :
            \E s : TakeUp(a, Act("save", i, [graph[i] EXCEPT !.status = s], "rest"))
    BY <1>3 DEF UpdateNode
  <2>1. PICK s : TakeUp(a, Act("save", i, [graph[i] EXCEPT !.status = s], "rest"))
    BY <2>0
  <2> DEFINE n == [graph[i] EXCEPT !.status = s]
  <2>2. IsNode(n) /\ n.kind # "none"
    BY StoredAreNodes, SetStatus
  <2>3. TakeUp(a, Act("save", i, n, "rest"))
    BY <2>1
  <2> HIDE DEF n
  <2> QED
    BY <1>1, <1>3, <2>2, <2>3, OfAct, Begins DEF UpdateNode, FirstSteps
<1>4. CASE DeleteNode(a)
  <2>1. PICK i \in Stored : TakeUp(a, Act("unlink", i, graph[i], "rest"))
    BY <1>4 DEF DeleteNode
  <2> QED
    BY <1>1, <1>4, <2>1, OfAct, Begins DEF DeleteNode, FirstSteps
<1>5. CASE PlanStart(a)
  <2>1. PICK p \in Plans : TakeUp(a, [AtRest EXCEPT !.at = "plan", !.plan = p])
    BY <1>5 DEF PlanStart
  <2> DEFINE r == [AtRest EXCEPT !.at = "plan", !.plan = p]
             q == [AtRest EXCEPT !.at = "plan"]
  <2>2. IsAct(q) /\ q.at = "plan"
    <3>1. PICK z : z = AtRest
      OBVIOUS
    <3>2. IsAct(z)
      BY <3>1, OfAct DEF AtRest
    <3>3. PICK at, id, copy, then, plan, ids, linked, alone :
              /\ z = [at |-> at, id |-> id, copy |-> copy, then |-> then, plan |-> plan, ids |-> ids,
                      linked |-> linked, alone |-> alone]
              /\ then \in {"rest", "work", "plan"}
      BY <3>2 DEF IsAct
    <3>4. q = [z EXCEPT !.at = "plan"]
      BY <3>1
    <3> HIDE DEF q
    <3> QED
      BY <3>3, <3>4 DEF IsAct
  <2>3. IsAct(r) /\ r.at = "plan"
    <3>1. r = [q EXCEPT !.plan = p]
      OBVIOUS
    <3> HIDE DEF q, r
    <3>2. PICK at, id, copy, then, plan, ids, linked, alone :
              q = [at |-> at, id |-> id, copy |-> copy, then |-> then, plan |-> plan, ids |-> ids,
                   linked |-> linked, alone |-> alone]
      BY <2>2 DEF IsAct
    <3> QED
      BY <2>2, <3>1, <3>2 DEF IsAct
  <2>4. TakeUp(a, r)
    BY <2>1
  <2> HIDE DEF r
  <2> QED
    BY <1>1, <1>5, <2>3, <2>4, Begins DEF PlanStart, FirstSteps
<1> QED
  BY <1>2, <1>3, <1>4, <1>5

(* The record of a thread that has a result to save.                       *)
Resulting(c, s) == [c EXCEPT !.at = "save", !.then = "rest", !.copy.status = s]

LEMMA WithResult ==
    ASSUME NEW c, NEW s, IsAct(c), IsNode(c.copy), c.copy.kind # "none"
    PROVE  LET r == Resulting(c, s)
           IN  /\ IsAct(r) /\ r.at = "save" /\ IsNode(r.copy) /\ r.copy.kind # "none"
               /\ r.id = c.id /\ r.copy.deps = c.copy.deps /\ r.then = "rest"
<1> PICK r : r = Resulting(c, s)
  OBVIOUS
<1>1. PICK n : n = c.copy
  OBVIOUS
<1>2. PICK m : m = [n EXCEPT !.status = s]
  OBVIOUS
<1>3. IsNode(m) /\ m.kind # "none" /\ m.deps = n.deps
  BY <1>1, <1>2, SetStatus
<1>4. PICK id, plan, ids, linked, alone, at, then :
          c = [at |-> at, id |-> id, copy |-> n, then |-> then, plan |-> plan, ids |-> ids,
               linked |-> linked, alone |-> alone]
  BY <1>1 DEF IsAct
<1>5. r = [at |-> "save", id |-> id, copy |-> m, then |-> "rest", plan |-> plan, ids |-> ids,
           linked |-> linked, alone |-> alone]
  <2> DEFINE q1 == [c EXCEPT !.at = "save"]
             q2 == [q1 EXCEPT !.then = "rest"]
  <2>1. q1 = [at |-> "save", id |-> id, copy |-> n, then |-> then, plan |-> plan, ids |-> ids,
              linked |-> linked, alone |-> alone]
    BY <1>4
  <2>2. q2 = [at |-> "save", id |-> id, copy |-> n, then |-> "rest", plan |-> plan, ids |-> ids,
              linked |-> linked, alone |-> alone]
    <3> HIDE DEF q1
    <3> QED
      BY <2>1
  <2>3. r = [q2 EXCEPT !.copy.status = s]
    BY DEF q1, q2, Resulting
  <2> HIDE DEF q1, q2
  <2>4. q2.copy = n
    BY <2>2
  <2>5. r = [q2 EXCEPT !.copy = m]
    BY <1>2, <2>3, <2>4
  <2> QED
    BY <2>2, <2>5
<1>6. IsAct(r) /\ r.at = "save" /\ r.copy = m /\ r.id = c.id /\ r.then = "rest"
  <2>1. IsAct(r)
    BY <1>5 DEF IsAct
  <2> QED
    BY <1>4, <1>5, <2>1
<1> QED
  BY <1>1, <1>3, <1>6

(* The record of a thread that starts the work on its copy.                *)
Starting(c) == [c EXCEPT !.at = "save", !.then = "work", !.copy.status = "in_progress"]

LEMMA WithStart ==
    ASSUME NEW c, IsAct(c), IsNode(c.copy), c.copy.kind # "none"
    PROVE  LET r == Starting(c)
           IN  /\ IsAct(r) /\ r.at = "save" /\ IsNode(r.copy) /\ r.copy.kind # "none"
               /\ r.id = c.id /\ r.copy.deps = c.copy.deps /\ r.then = "work" /\ r.alone = c.alone
<1> PICK r : r = Starting(c)
  OBVIOUS
<1>1. PICK n : n = c.copy
  OBVIOUS
<1>2. PICK m : m = [n EXCEPT !.status = "in_progress"]
  OBVIOUS
<1>3. IsNode(m) /\ m.kind # "none" /\ m.deps = n.deps
  BY <1>1, <1>2, SetStatus
<1>4. PICK id, plan, ids, linked, alone, at, then :
          c = [at |-> at, id |-> id, copy |-> n, then |-> then, plan |-> plan, ids |-> ids,
               linked |-> linked, alone |-> alone]
  BY <1>1 DEF IsAct
<1>5. r = [at |-> "save", id |-> id, copy |-> m, then |-> "work", plan |-> plan, ids |-> ids,
           linked |-> linked, alone |-> alone]
  <2> DEFINE q1 == [c EXCEPT !.at = "save"]
             q2 == [q1 EXCEPT !.then = "work"]
  <2>1. q1 = [at |-> "save", id |-> id, copy |-> n, then |-> then, plan |-> plan, ids |-> ids,
              linked |-> linked, alone |-> alone]
    BY <1>4
  <2>2. q2 = [at |-> "save", id |-> id, copy |-> n, then |-> "work", plan |-> plan, ids |-> ids,
              linked |-> linked, alone |-> alone]
    <3> HIDE DEF q1
    <3> QED
      BY <2>1
  <2>3. r = [q2 EXCEPT !.copy.status = "in_progress"]
    BY DEF q1, q2, Starting
  <2> HIDE DEF q1, q2
  <2>4. q2.copy = n
    BY <2>2
  <2>5. r = [q2 EXCEPT !.copy = m]
    BY <1>2, <2>3, <2>4
  <2> QED
    BY <2>2, <2>5
<1>6. IsAct(r) /\ r.at = "save" /\ r.copy = m /\ r.id = c.id /\ r.then = "work" /\ r.alone = c.alone
  <2>1. IsAct(r)
    BY <1>5 DEF IsAct
  <2> QED
    BY <1>4, <1>5, <2>1
<1> QED
  BY <1>1, <1>3, <1>6

(* What a listed bead depends on is stored or is being deleted.            *)
LEMMA Lists ==
    ASSUME GInv, NEW a \in Actors, ListReady(a)
    PROVE  GInv'
<1>1. PICK i \in Stored : TakeUp(a, Act("look", i, graph[i], "rest"))
  BY DEF ListReady
<1>2. Silent(a) /\ graph' = graph /\ torn' = torn /\ \A d : ~Removing(a, d)
  BY DEF ListReady, Silent, Removing
<1>3. IsNode(graph[i]) /\ graph[i].kind # "none"
  BY StoredAreNodes
<1>4. Moved(a) /\ act'[a].at = "look" /\ act'[a].copy = graph[i]
  BY <1>1, <1>2, OfAct, TakesUp
<1>5. \A d \in graph[i].deps : Safe(a, d)
  BY <1>2 DEF GInv, DependenciesExist, Safe, Removing
<1>6. \A d : Safe(a, d) => Safe(a, d)'
  BY <1>2, <1>4 DEF Safe, Stored, Removing, Moved, Untouched, Actors
<1>7. Own(a)'
  BY <1>3, <1>4, <1>5, <1>6 DEF Own, Copying, Writing, Cleaning
<1> QED
  BY <1>2, <1>4, <1>7, CalmStep

-----------------------------------------------------------------------------
(* How an actor goes on.                                                   *)
LEMMA GoesOnAt ==
    ASSUME GInv, NEW a \in Actors, NEW at, ~Silent(a), GoOn(a, at)
    PROVE  /\ Moved(a)
           /\ act'[a].at = at /\ act'[a].id = act[a].id /\ act'[a].copy = act[a].copy
           /\ act'[a].alone = act[a].alone
<1> PICK c : c = act[a]
  OBVIOUS
<1>1. IsAct(c)
  BY DEF GInv, Shape
<1> DEFINE r == [c EXCEPT !.at = at]
<1>2. IsAct(r) /\ r.at = at /\ r.id = c.id /\ r.copy = c.copy /\ r.alone = c.alone
  BY <1>1 DEF IsAct
<1>3. act' = [act EXCEPT ![a] = r]
  BY DEF GoOn
<1> HIDE DEF r
<1> QED
  BY <1>2, <1>3, GoesOn

LEMMA GivesUp ==
    ASSUME GInv, NEW a \in Actors, GiveUp(a)
    PROVE  Moved(a) /\ act'[a].at = "rest"
<1>1. IsAct(AtRest) /\ AtRest.at = "rest" /\ AtRest.alone # TRUE
  BY DEF AtRest, Act, IsAct
<1> QED
  BY <1>1, GoesOn DEF GiveUp

(* A step of the plan: a copy is taken in hand.                            *)
LEMMA TakesCopy ==
    ASSUME GInv, NEW a \in Actors, ~Silent(a), graph' = graph, torn' = torn,
           \A d : ~Removing(a, d),
           NEW r, IsAct(r), r.at = "save", IsNode(r.copy), r.copy.kind # "none",
           r.alone = act[a].alone, act' = [act EXCEPT ![a] = r]
    PROVE  GInv'
<1>1. Moved(a) /\ act'[a] = r
  BY GoesOn
<1>2. Own(a)'
  BY <1>1 DEF Own, Copying, Writing, Cleaning
<1> QED
  BY <1>1, <1>2, CalmStep

LEMMA Quits ==
    ASSUME GInv, NEW a \in Actors, graph' = graph, torn \subseteq torn', GiveUp(a),
           \A d : Removing(a, d) => d \in torn'
    PROVE  GInv'
<1>1. Moved(a) /\ act'[a].at = "rest"
  BY GivesUp
<1>2. Own(a)'
  BY <1>1 DEF Own, Copying, Writing, Cleaning
<1> QED
  BY <1>1, <1>2, CalmStep

LEMMA Workings ==
    ASSUME GInv, NEW a \in Workers,
           \/ ListReady(a) \/ RecordMissing(a) \/ PassOver(a)
           \/ StartWork(a) \/ EndWork(a) \/ RequeueNode(a)
    PROVE  GInv'
<1>1. a \in Actors
  BY DEF Actors
<1>2. CASE StartWork(a)
  <2> PICK c : c = act[a]
    OBVIOUS
  <2>1. IsAct(c) /\ IsNode(c.copy) /\ c.copy.kind # "none"
    BY <1>1, <1>2 DEF GInv, Shape, Own, Copying, StartWork
  <2> PICK r : r = Starting(c)
    OBVIOUS
  <2>2. IsAct(r) /\ r.at = "save" /\ IsNode(r.copy) /\ r.copy.kind # "none" /\ r.alone = c.alone
    BY <2>1, WithStart
  <2>3. act' = [act EXCEPT ![a] = r]
    BY <1>2 DEF StartWork, Starting
  <2>4. ~Silent(a) /\ graph' = graph /\ torn' = torn /\ \A d : ~Removing(a, d)
    BY <1>2 DEF StartWork, Silent, Removing
  <2> QED
    BY <1>1, <2>2, <2>3, <2>4, TakesCopy
<1>3. CASE EndWork(a)
  <2>1. PICK s : TakeUp(a, [act[a] EXCEPT !.at = "save", !.then = "rest", !.copy.status = s])
    BY <1>3 DEF EndWork
  <2> PICK c : c = act[a]
    OBVIOUS
  <2>2. IsAct(c) /\ IsNode(c.copy) /\ c.copy.kind # "none"
    BY <1>1, <1>3 DEF GInv, Shape, Own, Copying, EndWork
  <2> PICK r : r = Resulting(c, s)
    OBVIOUS
  <2>3. IsAct(r) /\ r.at = "save" /\ IsNode(r.copy) /\ r.copy.kind # "none"
    BY <2>2, WithResult
  <2>4. TakeUp(a, r)
    BY <2>1 DEF Resulting
  <2> QED
    BY <1>1, <1>3, <2>3, <2>4, Begins DEF EndWork, Silent
<1>4. CASE RequeueNode(a)
  <2>1. PICK i \in Stored : TakeUp(a, Act("save", i, [graph[i] EXCEPT !.status = "ready"], "rest"))
    BY <1>4 DEF RequeueNode
  <2> DEFINE n == [graph[i] EXCEPT !.status = "ready"]
  <2>2. IsNode(n) /\ n.kind # "none"
    BY StoredAreNodes, SetStatus
  <2>3. TakeUp(a, Act("save", i, n, "rest"))
    BY <2>1
  <2> HIDE DEF n
  <2> QED
    BY <1>1, <1>4, <2>2, <2>3, OfAct, Begins DEF RequeueNode, Silent
<1>5. CASE ListReady(a)
  BY <1>1, <1>5, Lists
<1>6. CASE RecordMissing(a)
  <2>1. ~Silent(a) /\ graph' = graph /\ torn' = torn /\ \A d : ~Removing(a, d)
    BY <1>6 DEF RecordMissing, Silent, Removing
  <2>2. Moved(a) /\ act'[a].at = "write" /\ act'[a].copy = act[a].copy
    BY <1>1, <1>6, <2>1, GoesOnAt DEF RecordMissing
  <2>3. Own(a) /\ act[a].at = "look"
    BY <1>1, <1>6 DEF GInv, RecordMissing
  <2>4. \A d : Safe(a, d) => Safe(a, d)'
    BY <2>1, <2>2 DEF Safe, Stored, Removing, Moved, Untouched, Actors
  <2>5. Own(a)'
    BY <2>2, <2>3, <2>4 DEF Own, Copying, Writing, Cleaning
  <2> QED
    BY <1>1, <2>1, <2>2, <2>5, CalmStep
<1>7. CASE PassOver(a)
  BY <1>1, <1>7, Quits DEF PassOver, Removing
<1> QED
  BY <1>2, <1>3, <1>4, <1>5, <1>6, <1>7

LEMMA Calm ==
    ASSUME GInv, NEW a \in Actors,
           CheckDependencies(a) \/ ListDependents(a) \/ PlanEnd(a) \/ Broken(a)
    PROVE  GInv'
<1>1. CASE CheckDependencies(a)
  <2>1. ~Silent(a) /\ \A d : ~Removing(a, d)
    BY <1>1 DEF CheckDependencies, Silent, Removing
  <2>2. CASE act[a].copy.deps \subseteq Stored
    <3>1. GoOn(a, "write")
      BY <1>1, <2>2 DEF CheckDependencies
    <3>2. Moved(a) /\ act'[a].at = "write" /\ act'[a].copy = act[a].copy
      BY <2>1, <3>1, GoesOnAt
    <3>3. Copying(a) /\ Stored' = Stored
      BY <1>1 DEF GInv, Own, CheckDependencies, Stored
    <3>4. Own(a)'
      BY <1>1, <2>2, <3>2, <3>3 DEF Own, Copying, Writing, Cleaning, Safe, CheckDependencies
    <3> QED
      BY <1>1, <2>1, <3>2, <3>4, CalmStep DEF CheckDependencies
  <2>3. CASE ~(act[a].copy.deps \subseteq Stored)
    BY <1>1, <2>1, <2>3, Quits DEF CheckDependencies
  <2> QED
    BY <2>2, <2>3
<1>2. CASE ListDependents(a)
  <2>1. ~Silent(a) /\ graph' = graph /\ torn' = torn
    BY <1>2 DEF ListDependents, Silent
  <2> PICK c : c = act[a]
    OBVIOUS
  <2> DEFINE r == [[c EXCEPT !.at = "clean"] EXCEPT !.copy = graph]
  <2>2. IsAct(c)
    BY DEF GInv, Shape
  <2>3. IsAct(r) /\ r.at = "clean" /\ r.id = c.id /\ r.copy = graph /\ r.alone = c.alone
    <3> PICK id, copy, then, plan, ids, linked, alone, at :
              /\ c = [at |-> at, id |-> id, copy |-> copy, then |-> then, plan |-> plan, ids |-> ids,
                      linked |-> linked, alone |-> alone]
              /\ then \in {"rest", "work", "plan"}
      BY <2>2 DEF IsAct
    <3> DEFINE q == [c EXCEPT !.at = "clean"]
    <3>1. q = [at |-> "clean", id |-> id, copy |-> copy, then |-> then, plan |-> plan, ids |-> ids,
               linked |-> linked, alone |-> alone]
      OBVIOUS
    <3> HIDE DEF q
    <3>2. r = [q EXCEPT !.copy = graph]
      BY DEF q
    <3> QED
      BY <3>1, <3>2 DEF IsAct
  <2>4. act' = [act EXCEPT ![a] = r]
    BY <1>2 DEF ListDependents
  <2> HIDE DEF r
  <2>5. Moved(a) /\ act'[a] = r
    BY <2>1, <2>3, <2>4, GoesOn
  <2>6. \A i \in Ids : \A d \in graph[i].deps : d = r.id \/ Safe(a, d)
    <3> SUFFICES ASSUME NEW i \in Ids, NEW d \in graph[i].deps, d # r.id, d \notin Stored, d \notin torn
                 PROVE  \E b \in Operators : b # a /\ Removing(b, d)
      BY DEF Safe
    <3>1. i \in Stored
      BY DEF Stored, NoNode, Node
    <3>2. PICK b \in Operators : Removing(b, d)
      BY <3>1 DEF GInv, DependenciesExist, Removing
    <3>3. b # a
      BY <2>3, <3>2 DEF Removing
    <3> QED
      BY <3>2, <3>3
  <2>7. \A d : Safe(a, d) => Safe(a, d)'
    BY <2>1, <2>5 DEF Safe, Stored, Removing, Moved, Untouched, Actors
  <2>8. IsGraph(graph)
    BY DEF GInv, Shape
  <2>9. Own(a)'
    BY <2>1, <2>3, <2>5, <2>6, <2>7, <2>8 DEF Own, Copying, Writing, Cleaning
  <2> QED
    BY <1>2, <2>1, <2>3, <2>5, <2>9, CalmStep DEF Removing
<1>3. CASE PlanEnd(a)
  BY <1>3, Quits DEF PlanEnd, Removing
<1>4. CASE Broken(a)
  BY <1>4, Quits DEF Broken, Removing
<1> QED
  BY <1>1, <1>2, <1>3, <1>4

-----------------------------------------------------------------------------
(* The records of a plan that takes a copy in hand.                        *)
NodeTaken(c, m, n, k) == [c EXCEPT !.at = "save", !.then = "plan", !.id = m, !.copy = n, !.ids = k]
LinkTaken(c, i, x, n) == [c EXCEPT !.at = "save", !.linked = i, !.id = x, !.copy = n]

LEMMA WithNode ==
    ASSUME NEW c, IsAct(c), NEW m, NEW n, NEW k
    PROVE  NodeTaken(c, m, n, k)
             = [at |-> "save", id |-> m, copy |-> n, then |-> "plan", plan |-> c.plan, ids |-> k,
                linked |-> c.linked, alone |-> c.alone]
<1> PICK id, copy, then, plan, ids, linked, alone, at :
          c = [at |-> at, id |-> id, copy |-> copy, then |-> then, plan |-> plan, ids |-> ids,
               linked |-> linked, alone |-> alone]
  BY DEF IsAct
<1> DEFINE q1 == [c EXCEPT !.at = "save"]
           q2 == [q1 EXCEPT !.then = "plan"]
           q3 == [q2 EXCEPT !.id = m]
           q4 == [q3 EXCEPT !.copy = n]
<1>1. q1 = [at |-> "save", id |-> id, copy |-> copy, then |-> then, plan |-> plan, ids |-> ids,
            linked |-> linked, alone |-> alone]
  OBVIOUS
<1> HIDE DEF q1
<1>2. q2 = [at |-> "save", id |-> id, copy |-> copy, then |-> "plan", plan |-> plan, ids |-> ids,
            linked |-> linked, alone |-> alone]
  BY <1>1
<1> HIDE DEF q2
<1>3. q3 = [at |-> "save", id |-> m, copy |-> copy, then |-> "plan", plan |-> plan, ids |-> ids,
            linked |-> linked, alone |-> alone]
  BY <1>2
<1> HIDE DEF q3
<1>4. q4 = [at |-> "save", id |-> m, copy |-> n, then |-> "plan", plan |-> plan, ids |-> ids,
            linked |-> linked, alone |-> alone]
  BY <1>3
<1> HIDE DEF q4
<1>5. [q4 EXCEPT !.ids = k] = [at |-> "save", id |-> m, copy |-> n, then |-> "plan", plan |-> plan,
                               ids |-> k, linked |-> linked, alone |-> alone]
  BY <1>4
<1>6. NodeTaken(c, m, n, k) = [q4 EXCEPT !.ids = k]
  BY DEF NodeTaken, q1, q2, q3, q4
<1> QED
  BY <1>5, <1>6

LEMMA WithLink ==
    ASSUME NEW c, IsAct(c), NEW i, NEW x, NEW n
    PROVE  LinkTaken(c, i, x, n)
             = [at |-> "save", id |-> x, copy |-> n, then |-> c.then, plan |-> c.plan, ids |-> c.ids,
                linked |-> i, alone |-> c.alone]
<1> PICK id, copy, then, plan, ids, linked, alone, at :
          c = [at |-> at, id |-> id, copy |-> copy, then |-> then, plan |-> plan, ids |-> ids,
               linked |-> linked, alone |-> alone]
  BY DEF IsAct
<1> DEFINE q1 == [c EXCEPT !.at = "save"]
           q2 == [q1 EXCEPT !.linked = i]
           q3 == [q2 EXCEPT !.id = x]
<1>1. q1 = [at |-> "save", id |-> id, copy |-> copy, then |-> then, plan |-> plan, ids |-> ids,
            linked |-> linked, alone |-> alone]
  OBVIOUS
<1> HIDE DEF q1
<1>2. q2 = [at |-> "save", id |-> id, copy |-> copy, then |-> then, plan |-> plan, ids |-> ids,
            linked |-> i, alone |-> alone]
  BY <1>1
<1> HIDE DEF q2
<1>3. q3 = [at |-> "save", id |-> x, copy |-> copy, then |-> then, plan |-> plan, ids |-> ids,
            linked |-> i, alone |-> alone]
  BY <1>2
<1> HIDE DEF q3
<1>4. [q3 EXCEPT !.copy = n] = [at |-> "save", id |-> x, copy |-> n, then |-> then, plan |-> plan,
                                ids |-> ids, linked |-> i, alone |-> alone]
  BY <1>3
<1>5. LinkTaken(c, i, x, n) = [q3 EXCEPT !.copy = n]
  BY DEF LinkTaken, q1, q2, q3
<1> QED
  BY <1>4, <1>5

LEMMA Planning ==
    ASSUME GInv, NEW a \in Actors, PlanCreate(a) \/ PlanLink(a)
    PROVE  GInv'
<1> PICK c : c = act[a]
  OBVIOUS
<1>1. /\ ~Silent(a) /\ \A d : ~Removing(a, d)
      /\ graph' = graph /\ torn' = torn
  BY DEF PlanCreate, PlanLink, Silent, Removing
<1>2. GiveUp(a) => GInv'
  BY <1>1, Quits
<1>3. IsAct(c) /\ c.then \in {"rest", "work", "plan"}
  BY DEF GInv, Shape, IsAct
<1>4. ASSUME NEW x, NEW n, NEW t \in {"rest", "work", "plan"}, NEW k, NEW l, NEW r,
             IsNode(n), n.kind # "none", act' = [act EXCEPT ![a] = r],
             r = [at |-> "save", id |-> x, copy |-> n, then |-> t, plan |-> c.plan,
                  ids |-> k, linked |-> l, alone |-> c.alone]
      PROVE  GInv'
  <2>1. IsAct(r) /\ r.at = "save" /\ IsNode(r.copy) /\ r.copy.kind # "none" /\ r.alone = c.alone
    BY <1>4 DEF IsAct
  <2> QED
    BY <1>1, <1>4, <2>1, TakesCopy
<1>5. CASE PlanCreate(a) /\ ~GiveUp(a)
  <2>1. IsNode(PlanNode(c)) /\ PlanNode(c).kind # "none"
    BY DEF PlanNode, IsNode, Node
  <2>0. PICK m, n, k : m = named' /\ n = PlanNode(c) /\ k = Append(c.ids, named')
    OBVIOUS
  <2>2. act' = [act EXCEPT ![a] = [@ EXCEPT !.at = "save", !.then = "plan", !.id = m, !.copy = n, !.ids = k]]
    BY <1>5, <2>0 DEF PlanCreate
  <2> PICK r : r = NodeTaken(c, m, n, k)
    OBVIOUS
  <2>3. act' = [act EXCEPT ![a] = r]
    BY <2>2 DEF NodeTaken
  <2>4. r = [at |-> "save", id |-> m, copy |-> n, then |-> "plan", plan |-> c.plan, ids |-> k,
             linked |-> c.linked, alone |-> c.alone]
    BY <1>3, WithNode
  <2>5. IsNode(n) /\ n.kind # "none"
    BY <2>0, <2>1
  <2> QED
    BY <1>4, <2>3, <2>4, <2>5
<1>6. CASE PlanLink(a) /\ ~GiveUp(a)
  <2> DEFINE i == IF c.linked = 0 THEN 2 ELSE c.linked + 1
             x == c.ids[i + 1]
  <2>1. x \in Stored
    BY <1>6 DEF PlanLink
  <2>0. PICK n : n = [graph[x] EXCEPT !.deps = DepsOf(c, i)]
    OBVIOUS
  <2>2. IsNode(n) /\ n.kind # "none"
    BY <2>0, <2>1, StoredAreNodes, SetDeps
  <2>3. act' = [act EXCEPT ![a] = [@ EXCEPT !.at = "save", !.linked = i, !.id = x, !.copy = n]]
    BY <1>6, <2>0 DEF PlanLink
  <2> HIDE DEF i, x
  <2> PICK r : r = LinkTaken(c, i, x, n)
    OBVIOUS
  <2>4. act' = [act EXCEPT ![a] = r]
    BY <2>3 DEF LinkTaken
  <2>5. r = [at |-> "save", id |-> x, copy |-> n, then |-> c.then, plan |-> c.plan, ids |-> c.ids,
             linked |-> i, alone |-> c.alone]
    BY <1>3, WithLink
  <2> QED
    BY <1>3, <1>4, <2>2, <2>4, <2>5
<1> QED
  BY <1>2, <1>5, <1>6

(* What is written depends on what is stored or is being deleted.          *)
LEMMA Writes ==
    ASSUME GInv, NEW a \in Actors, WriteNode(a)
    PROVE  GInv'
<1> DEFINE w == act[a].copy
<1>1. /\ ~Silent(a) /\ \A d : ~Removing(a, d)
      /\ graph' = [graph EXCEPT ![act[a].id] = w] /\ torn' = torn
      /\ act[a].at \in {"write", "rewrite"}
  BY DEF WriteNode, Silent, Removing
<1>2. IsNode(w) /\ w.kind # "none" /\ w # NoNode /\ \A d \in w.deps : Safe(a, d)
  BY <1>1 DEF GInv, Own, Copying, Writing, NoNode, Node
<1>3. IsGraph(graph)
  BY DEF GInv, Shape
<1> HIDE DEF w
<1>4. IsGraph(graph')
  BY <1>1, <1>2, <1>3 DEF IsGraph
<1>5. Stored \subseteq Stored' /\ \A i \in Stored' : (i \in Stored /\ graph'[i] = graph[i]) \/ graph'[i] = w
  BY <1>1, <1>2, <1>3 DEF Stored, IsGraph
<1>6. Moved(a) /\ act'[a].at \in {"rest", "work", "plan", "rewrite"} /\ (act'[a].at # "rest" => act'[a].copy = w)
  <2>1. act[a].then \in {"rest", "work", "plan"}
    BY DEF GInv, Shape, IsAct
  <2>2. GiveUp(a) \/ GoOn(a, act[a].then) \/ GoOn(a, "rewrite")
    BY DEF WriteNode
  <2> QED
    BY <1>1, <2>1, <2>2, GivesUp, GoesOnAt DEF w
<1>7. \A d : Safe(a, d) => Safe(a, d)'
  BY <1>1, <1>5, <1>6 DEF Safe, Removing, Moved, Untouched, Actors
<1>8. Own(a)'
  BY <1>2, <1>6, <1>7 DEF Own, Copying, Writing, Cleaning
<1>9. \A x \in Actors : Own(x)'
  <2>1. Untouched(a) /\ Stored \ Stored' = {}
    BY <1>5, <1>6 DEF Moved
  <2> QED
    BY <1>1, <1>8, <2>1, OthersKeep
<1>10. DependenciesExist'
  <2> SUFFICES ASSUME NEW i \in Stored', NEW d \in graph'[i].deps \ Stored', d \notin torn'
               PROVE  \E b \in Operators : Removing(b, d)'
    BY DEF DependenciesExist, Removing
  <2>1. d \notin Stored /\ d \notin torn
    BY <1>1, <1>5
  <2>2. PICK b \in Operators : Removing(b, d)
    <3>1. CASE i \in Stored /\ graph'[i] = graph[i]
      BY <2>1, <3>1 DEF GInv, DependenciesExist, Removing
    <3>2. CASE graph'[i] = w
      BY <1>2, <2>1, <3>2 DEF Safe
    <3> QED
      BY <1>5, <3>1, <3>2
  <2>3. b # a /\ b \in Actors
    BY <1>1, <2>2 DEF Actors
  <2> QED
    BY <1>6, <2>2, <2>3 DEF Removing, Moved, Untouched
<1> QED
  BY <1>4, <1>6, <1>9, <1>10 DEF GInv, Shape, Moved, Typed

-----------------------------------------------------------------------------
(* What is removed is seen to be removed until the dependents are written. *)
LEMMA Unlinks ==
    ASSUME GInv, NEW a \in Operators, Unlink(a)
    PROVE  GInv'
<1> DEFINE d == act[a].id
<1>1. /\ a \in Actors /\ ~Silent(a) /\ torn' = torn /\ \A e : ~Removing(a, e)
  BY DEF Unlink, Silent, Removing, Actors
<1>2. CASE d \notin Stored
  BY <1>1, <1>2, Quits DEF Unlink
<1>3. CASE d \in Stored
  <2>1. graph' = [graph EXCEPT ![d] = NoNode] /\ GoOn(a, "list")
    BY <1>3 DEF Unlink
  <2>2. Moved(a) /\ act'[a].at = "list" /\ act'[a].id = d
    BY <1>1, <2>1, GoesOnAt
  <2> HIDE DEF d
  <2>3. IsGraph(graph) /\ d \in Ids
    BY <1>3 DEF GInv, Shape, Stored
  <2>4. Stored' = Stored \ {d} /\ \A i \in Stored' : graph'[i] = graph[i]
    BY <2>1, <2>3 DEF Stored, IsGraph
  <2>5. NoNode = Node("none", NoNode.parent, NoNode.deps, NoNode.status) /\ NoNode.kind = "none"
    BY DEF NoNode, Node
  <2>6. IsNode(NoNode)
    BY <2>5 DEF IsNode
  <2>7. IsGraph(graph')
    BY <2>1, <2>3, <2>6 DEF IsGraph
  <2>8. \A x \in Actors : Own(x)'
    <3>1. Own(a)'
      BY <2>2 DEF Own, Copying, Writing, Cleaning
    <3>2. Untouched(a) /\ \A e \in Stored \ Stored' : Removing(a, e)'
      BY <2>2, <2>4 DEF Moved, Removing
    <3> QED
      BY <1>1, <3>1, <3>2, OthersKeep
  <2>9. DependenciesExist'
    <3> SUFFICES ASSUME NEW i \in Stored', NEW e \in graph'[i].deps \ Stored', e \notin torn'
                 PROVE  \E b \in Operators : Removing(b, e)'
      BY DEF DependenciesExist, Removing
    <3>1. CASE e = d
      BY <2>2, <3>1 DEF Removing
    <3>2. CASE e # d
      <4>1. i \in Stored /\ e \in graph[i].deps /\ e \notin Stored /\ e \notin torn
        BY <1>1, <2>4, <3>2
      <4>2. PICK b \in Operators : Removing(b, e)
        BY <4>1 DEF GInv, DependenciesExist, Removing
      <4>3. b # a /\ b \in Actors
        BY <1>1, <4>2 DEF Actors
      <4> QED
        BY <2>2, <4>2, <4>3 DEF Removing, Moved, Untouched
    <3> QED
      BY <3>1, <3>2
  <2> QED
    BY <2>2, <2>7, <2>8, <2>9 DEF GInv, Shape, Moved, Typed
<1> QED
  BY <1>2, <1>3

(* A dependent is written without the bead that is removed.                *)
Cleaned(c, i) == [c.copy[i] EXCEPT !.deps = @ \ {c.id}]

LEMMA CleanedNode ==
    ASSUME NEW c, NEW i \in Ids, IsGraph(c.copy), c.id \in c.copy[i].deps
    PROVE  /\ IsNode(Cleaned(c, i)) /\ Cleaned(c, i).kind # "none"
           /\ Cleaned(c, i).deps = c.copy[i].deps \ {c.id}
           /\ c.copy[i] # NoNode
<1> PICK n : n = c.copy[i]
  OBVIOUS
<1>1. IsNode(n) /\ n.kind # "none" /\ n # NoNode
  <2>1. NoNode.deps = {}
    BY DEF NoNode, Node
  <2> QED
    BY <2>1 DEF IsGraph
<1> PICK s : s = n.deps \ {c.id}
  OBVIOUS
<1>2. Cleaned(c, i) = [n EXCEPT !.deps = s]
  BY DEF Cleaned
<1>3. IsNode([n EXCEPT !.deps = s]) /\ [n EXCEPT !.deps = s].kind # "none" /\ [n EXCEPT !.deps = s].deps = s
  BY <1>1, SetDeps
<1> QED
  BY <1>1, <1>2, <1>3

(* The record of a delete that has cleaned one of the copies it listed.    *)
CopyCleaned(c, i) == [c EXCEPT !.copy[i] = [c.copy[i] EXCEPT !.deps = @ \ {c.id}]]

LEMMA WithCleaned ==
    ASSUME NEW c, NEW i, IsAct(c)
    PROVE  LET r == CopyCleaned(c, i)
           IN  /\ IsAct(r) /\ r.copy = [c.copy EXCEPT ![i] = Cleaned(c, i)]
               /\ r.at = c.at /\ r.id = c.id /\ r.alone = c.alone /\ r.then = c.then
               /\ r.plan = c.plan /\ r.ids = c.ids /\ r.linked = c.linked
<1> PICK n : n = Cleaned(c, i)
  OBVIOUS
<1> PICK g : g = [c.copy EXCEPT ![i] = n]
  OBVIOUS
<1> PICK r : r = CopyCleaned(c, i)
  OBVIOUS
<1>1. r = [c EXCEPT !.copy = g]
  BY DEF CopyCleaned, Cleaned
<1>2. r = [at |-> c.at, id |-> c.id, copy |-> g, then |-> c.then, plan |-> c.plan, ids |-> c.ids,
           linked |-> c.linked, alone |-> c.alone]
  BY <1>1 DEF IsAct
<1>3. c.then \in {"rest", "work", "plan"}
  BY DEF IsAct
<1>4. IsAct(r)
  BY <1>2, <1>3 DEF IsAct
<1> QED
  BY <1>2, <1>4

LEMMA Cleans ==
    ASSUME GInv, NEW a \in Operators, CleanDependent(a)
    PROVE  GInv'
<1> PICK c : c = act[a]
  OBVIOUS
<1>1. a \in Actors /\ ~Silent(a) /\ c.at = "clean" /\ torn' = torn
  BY DEF CleanDependent, Silent, Actors
<1>2. PICK i \in DependentsLeft(a) :
          LET cleaned == [act[a].copy[i] EXCEPT !.deps = @ \ {act[a].id}]
          IN  /\ graph' = [graph EXCEPT ![i] = cleaned]
              /\ act' = [act EXCEPT ![a].copy[i] = cleaned]
  BY DEF CleanDependent
<1>3. PICK n : n = Cleaned(c, i)
  OBVIOUS
<1>4. PICK r : r = CopyCleaned(c, i)
  OBVIOUS
<1>5. graph' = [graph EXCEPT ![i] = n] /\ act' = [act EXCEPT ![a] = r]
  BY <1>2, <1>3, <1>4 DEF Cleaned, CopyCleaned
<1>6. i \in Ids /\ c.id \in c.copy[i].deps
  BY <1>2 DEF DependentsLeft
<1>7. IsAct(c) /\ IsGraph(graph)
  BY <1>1 DEF GInv, Shape
<1>8. /\ IsGraph(c.copy) /\ (c.alone = TRUE => c.copy = graph)
      /\ \A j \in Ids : \A e \in c.copy[j].deps : e = c.id \/ Safe(a, e)
  BY <1>1 DEF GInv, Own, Cleaning
<1>9. IsNode(n) /\ n.kind # "none" /\ n.deps = c.copy[i].deps \ {c.id} /\ n # NoNode
  <2>1. NoNode.kind = "none"
    BY DEF NoNode, Node
  <2> QED
    BY <1>3, <1>6, <1>8, <2>1, CleanedNode
<1>10. /\ IsAct(r) /\ r.copy = [c.copy EXCEPT ![i] = n] /\ r.at = "clean" /\ r.id = c.id
       /\ r.alone = c.alone
  <2>1. /\ IsAct(CopyCleaned(c, i)) /\ CopyCleaned(c, i).copy = [c.copy EXCEPT ![i] = Cleaned(c, i)]
        /\ CopyCleaned(c, i).at = c.at /\ CopyCleaned(c, i).id = c.id
        /\ CopyCleaned(c, i).alone = c.alone
    BY <1>7, WithCleaned
  <2> QED
    BY <1>1, <1>3, <1>4, <2>1
<1>11. Moved(a) /\ act'[a] = r
  BY <1>1, <1>5, <1>10, GoesOn
<1>12. IsGraph(graph') /\ IsGraph(r.copy)
  BY <1>5, <1>7, <1>8, <1>9, <1>10 DEF IsGraph
<1>13. Stored \subseteq Stored' /\ \A j \in Stored' : (j \in Stored /\ graph'[j] = graph[j]) \/ graph'[j] = n
  BY <1>5, <1>6, <1>7, <1>9 DEF Stored, IsGraph
<1>14. \A e : Safe(a, e) => Safe(a, e)'
  BY <1>1, <1>11, <1>13 DEF Safe, Removing, Moved, Untouched, Actors
<1>15. \A e : Removing(a, e) => Removing(a, e)'
  BY <1>1, <1>10, <1>11 DEF Removing
<1>16. Own(a)'
  <2>1. \A j \in Ids : r.copy[j].deps \subseteq c.copy[j].deps
    BY <1>6, <1>8, <1>9, <1>10 DEF IsGraph
  <2>2. \A j \in Ids : \A e \in r.copy[j].deps : e = r.id \/ Safe(a, e)'
    BY <1>8, <1>10, <1>14, <2>1
  <2>3. r.alone = TRUE => r.copy = graph'
    BY <1>5, <1>8, <1>10
  <2> QED
    BY <1>10, <1>11, <1>12, <2>2, <2>3 DEF Own, Copying, Writing, Cleaning
<1>17. \A x \in Actors : Own(x)'
  <2>1. Untouched(a) /\ Stored \ Stored' = {}
    BY <1>11, <1>13 DEF Moved
  <2> QED
    BY <1>1, <1>15, <1>16, <2>1, OthersKeep
<1>18. DependenciesExist'
  <2> SUFFICES ASSUME NEW j \in Stored', NEW e \in graph'[j].deps \ Stored', e \notin torn'
               PROVE  \E b \in Operators : Removing(b, e)'
    BY DEF DependenciesExist, Removing
  <2>1. e \notin Stored /\ e \notin torn
    BY <1>1, <1>13
  <2>2. PICK b \in Operators : Removing(b, e)
    <3>1. CASE j \in Stored /\ graph'[j] = graph[j]
      BY <2>1, <3>1 DEF GInv, DependenciesExist, Removing
    <3>2. CASE graph'[j] = n
      BY <1>6, <1>8, <1>9, <2>1, <3>2 DEF Safe
    <3> QED
      BY <1>13, <3>1, <3>2
  <2>3. CASE b = a
    BY <1>15, <2>2, <2>3
  <2>4. CASE b # a
    BY <1>11, <2>2, <2>4 DEF Removing, Moved, Untouched, Actors
  <2> QED
    BY <2>3, <2>4
<1> QED
  BY <1>11, <1>12, <1>17, <1>18 DEF GInv, Shape, Moved, Typed

(* A delete without company leaves no dependents; one that had company     *)
(* ends torn.                                                              *)
LEMMA DeleteEnds ==
    ASSUME GInv, NEW a \in Operators, DeleteEnd(a)
    PROVE  GInv'
<1> PICK c : c = act[a]
  OBVIOUS
<1>1. a \in Actors /\ ~Silent(a) /\ c.at = "clean" /\ graph' = graph /\ GiveUp(a) /\ DependentsLeft(a) = {}
  BY DEF DeleteEnd, Silent, Actors
<1>2. torn \subseteq torn' /\ (c.alone # TRUE => c.id \in torn')
  BY <1>1 DEF DeleteEnd
<1>3. Moved(a) /\ act'[a].at = "rest"
  BY <1>1, GivesUp
<1>4. \A e : Removing(a, e) => e = c.id
  BY DEF Removing
<1>5. CASE c.alone # TRUE
  BY <1>1, <1>2, <1>4, <1>5, Quits
<1>6. CASE c.alone = TRUE
  <2>1. c.copy = graph
    BY <1>1, <1>6 DEF GInv, Own, Cleaning
  <2>2. \A i \in Stored : c.id \notin graph[i].deps
    BY <1>1, <2>1 DEF DependentsLeft, Stored
  <2>3. Own(a)'
    BY <1>3 DEF Own, Copying, Writing, Cleaning
  <2>4. \A x \in Actors : Own(x)'
    <3>1. Untouched(a) /\ Stored' = Stored
      BY <1>1, <1>3 DEF Moved, Stored
    <3> QED
      BY <1>1, <1>2, <1>6, <2>3, <3>1, OthersKeep
  <2>5. DependenciesExist'
    <3> SUFFICES ASSUME NEW i \in Stored, NEW e \in graph[i].deps \ Stored, e \notin torn'
                 PROVE  \E b \in Operators : Removing(b, e)'
      BY <1>1 DEF DependenciesExist, Removing, Stored
    <3>1. PICK b \in Operators : Removing(b, e)
      BY <1>2 DEF GInv, DependenciesExist, Removing
    <3>2. b # a
      BY <1>4, <2>2, <3>1
    <3> QED
      BY <1>3, <3>1, <3>2 DEF Removing, Moved, Untouched, Actors
  <2>6. IsGraph(graph')
    BY <1>1 DEF GInv, Shape
  <2> QED
    BY <1>3, <2>4, <2>5, <2>6 DEF GInv, Shape, Moved, Typed
<1> QED
  BY <1>5, <1>6

-----------------------------------------------------------------------------
LEMMA GraphSteps == GInv /\ [GraphNext]_graphVars => GInv'
<1> SUFFICES ASSUME GInv, [GraphNext]_graphVars PROVE GInv'
  OBVIOUS
<1>1. CASE UNCHANGED graphVars
  <2>1. graph' = graph /\ act' = act /\ torn' = torn
    BY <1>1 DEF graphVars
  <2> QED
    BY <2>1 DEF GInv, Shape, Company, Silent, Own, Copying, Writing, Cleaning, Safe, Removing, Stored,
                DependenciesExist
<1>2. ASSUME NEW a \in Actors, CheckDependencies(a) \/ WriteNode(a) \/ Broken(a)
      PROVE  GInv'
  BY <1>2, Calm, Writes
<1>3. ASSUME NEW a \in Operators,
             \/ CreateNode(a) \/ UpdateNode(a)
             \/ DeleteNode(a) \/ Unlink(a) \/ ListDependents(a) \/ CleanDependent(a) \/ DeleteEnd(a)
             \/ PlanStart(a) \/ PlanCreate(a) \/ PlanLink(a) \/ PlanEnd(a)
      PROVE  GInv'
  <2>1. a \in Actors
    BY DEF Actors
  <2> QED
    BY <1>3, <2>1, Operations, Unlinks, Cleans, DeleteEnds, Calm, Planning
<1>4. ASSUME NEW w \in Workers,
             \/ ListReady(w) \/ RecordMissing(w) \/ PassOver(w)
             \/ StartWork(w) \/ EndWork(w) \/ RequeueNode(w)
      PROVE  GInv'
  BY <1>4, Workings
<1> QED
  BY <1>1, <1>2, <1>3, <1>4 DEF GraphNext

(* A stored bead depends on what is not stored only while that is being    *)
(* deleted, or where a delete was killed or had company: plan, create,     *)
(* update, delete and the scheduler, with failing commits and kills, on    *)
(* any number of beads (storage.py save_bead, delete_bead).                *)
THEOREM NothingDangles == GraphSpec => []DependenciesExist
<1>1. GInv => DependenciesExist
  BY DEF GInv
<1> QED
  BY <1>1, GraphInitially, GraphSteps, PTL DEF GraphSpec

-----------------------------------------------------------------------------
(* The order of a plan.  What a plan wants done before a bead is among the *)
(* dependencies of that bead, in its file and in every copy that may yet   *)
(* be saved, unless it was deleted.                                        *)
Waits(i, deps) == \A d \in planned[i] : d \in deps \/ d \in removed
Given == 1..named

Fresh ==
    /\ named \in Nat /\ named <= MaxBeads /\ Stored \subseteq Given
    /\ \A i \in Ids \ Given : planned[i] = {}

Carrying(a) ==
    /\ act[a].at \in {"look", "save", "work", "write", "rewrite"} =>
           act[a].id \in Given /\ Waits(act[a].id, act[a].copy.deps)
    /\ act[a].at \in {"rest", "look"} => act[a].then = "rest"
Deleting(a) ==
    /\ act[a].at \in {"list", "clean"} => act[a].id \in removed
    /\ act[a].at = "clean" =>
           \A i \in Ids : act[a].copy[i] # NoNode => i \in Given /\ Waits(i, act[a].copy[i].deps)

(* A plan has its ids for itself, and they wait for nothing yet.           *)
OnPlan(a) ==
    act[a].at = "plan" \/ (act[a].then = "plan" /\ act[a].at \in {"save", "write", "rewrite"})
Drafted(c) ==
    /\ c.plan \in Plans /\ c.ids \in Seq(Given)
    /\ \A k \in DOMAIN c.ids : planned[c.ids[k]] = {}
    /\ \A k, l \in DOMAIN c.ids : c.ids[k] = c.ids[l] => k = l

(* It has written the dependencies of its beads up to the one that it is   *)
(* at; nobody else has written them since, if it has no company, and no    *)
(* agent works on them.                                                    *)
Links(c) ==
    /\ c.linked \in Nat /\ (c.linked # 0 => c.linked <= Len(c.plan) /\ Len(c.ids) = Len(c.plan) + 1)
    /\ c.at # "plan" /\ c.linked # 0 => c.id = c.ids[c.linked + 1] /\ c.copy.deps = DepsOf(c, c.linked)
Written(c) == 2..(IF c.at = "plan" THEN c.linked ELSE c.linked - 1)
LinksStay(c) ==
    \A j \in Written(c) :
        c.ids[j + 1] \in Stored => DepsOf(c, j) \subseteq graph[c.ids[j + 1]].deps
NotWorkedOn(a) ==
    \A w \in Actors \ {a} : act[w].at = "work" => \A k \in DOMAIN act[a].ids : act[a].ids[k] # act[w].id

Pursuing(a) ==
    OnPlan(a) =>
        /\ Drafted(act[a]) /\ Links(act[a])
        /\ act[a].alone = TRUE => LinksStay(act[a]) /\ NotWorkedOn(a)

Has(a) == Carrying(a) /\ Deleting(a) /\ Pursuing(a)
OInv == Fresh /\ (\A i \in Stored : Waits(i, graph[i].deps)) /\ \A a \in Actors : Has(a)

LEMMA OrderInitially == GraphInit => OInv
<1> SUFFICES ASSUME GraphInit PROVE OInv
  OBVIOUS
<1>1. /\ \A a \in Actors : act[a].at = "rest" /\ act[a].then = "rest"
      /\ \A i \in Ids : planned[i] = {}
  BY DEF GraphInit, AtRest, Act
<1>2. Stored \subseteq Given /\ named \in Nat /\ named <= MaxBeads
  <2>1. CASE named = 0 /\ graph = [i \in Ids |-> NoNode]
    BY <2>1, BeadGraphAssumption DEF Stored
  <2>2. CASE named # 0
    <3>1. named = 2 /\ MaxBeads >= 2 /\ \A i \in Ids : i > 2 => graph[i] = NoNode
      BY <2>2 DEF GraphInit
    <3> QED
      BY <3>1, BeadGraphAssumption DEF Stored, Ids, Given
  <2> QED
    BY <2>1, <2>2 DEF GraphInit
<1>3. \A i \in Ids : \A deps : Waits(i, deps)
  BY <1>1 DEF Waits
<1>4. \A i \in Stored : Waits(i, graph[i].deps)
  BY <1>3 DEF Stored
<1> QED
  BY <1>1, <1>2, <1>4 DEF OInv, Fresh, Has, Carrying, Deleting, Pursuing, OnPlan

-----------------------------------------------------------------------------
(* What is in an actor's hands.                                            *)
Keeps(x) ==
    /\ act'[x].at = act[x].at /\ act'[x].id = act[x].id /\ act'[x].copy = act[x].copy
    /\ act'[x].then = act[x].then /\ act'[x].plan = act[x].plan /\ act'[x].ids = act[x].ids
    /\ act'[x].linked = act[x].linked
    /\ act'[x].alone = TRUE => act[x].alone = TRUE
Becomes(a, r) ==
    /\ act'[a].at = r.at /\ act'[a].id = r.id /\ act'[a].copy = r.copy /\ act'[a].then = r.then
    /\ act'[a].plan = r.plan /\ act'[a].ids = r.ids /\ act'[a].linked = r.linked
OthersStay(a) == \A x \in Actors \ {a} : Keeps(x)

LEMMA TakesUpWhole ==
    ASSUME GInv, NEW a \in Actors, NEW r, IsAct(r), TakeUp(a, r)
    PROVE  OthersStay(a) /\ Becomes(a, r)
<1> DEFINE alone == r.at \in {"plan", "unlink"} /\ \A d \in Actors \ {a} : Silent(d)
<1>1. act' = [b \in Actors |-> IF b = a THEN [r EXCEPT !.alone = alone]
                               ELSE [act[b] EXCEPT !.alone = FALSE]]
  BY DEF TakeUp, Becoming
<1> HIDE DEF alone
<1>2. Becomes(a, r)
  BY <1>1 DEF IsAct, Becomes
<1>3. ASSUME NEW x \in Actors \ {a} PROVE Keeps(x)
  <2>1. PICK c : c = act[x]
    OBVIOUS
  <2>2. IsAct(c)
    BY <2>1 DEF GInv, Shape
  <2>3. act'[x] = [c EXCEPT !.alone = FALSE]
    BY <1>1, <2>1
  <2>4. act'[x] = [at |-> c.at, id |-> c.id, copy |-> c.copy, then |-> c.then, plan |-> c.plan,
                   ids |-> c.ids, linked |-> c.linked, alone |-> FALSE]
    BY <2>2, <2>3 DEF IsAct
  <2> QED
    BY <2>1, <2>4 DEF Keeps
<1> QED
  BY <1>2, <1>3 DEF OthersStay

LEMMA GoesOnWhole ==
    ASSUME GInv, NEW a \in Actors, NEW r, act' = [act EXCEPT ![a] = r]
    PROVE  OthersStay(a) /\ act'[a] = r
  BY DEF GInv, Shape, OthersStay, Keeps

LEMMA GoesOnAtWhole ==
    ASSUME GInv, NEW a \in Actors, NEW at, GoOn(a, at)
    PROVE  /\ OthersStay(a) /\ act'[a].at = at /\ act'[a].alone = act[a].alone
           /\ act'[a].id = act[a].id /\ act'[a].copy = act[a].copy
           /\ act'[a].then = act[a].then /\ act'[a].plan = act[a].plan /\ act'[a].ids = act[a].ids
           /\ act'[a].linked = act[a].linked
<1> PICK c : c = act[a]
  OBVIOUS
<1>1. IsAct(c)
  BY DEF GInv, Shape
<1> DEFINE r == [c EXCEPT !.at = at]
<1>2. r = [at |-> at, id |-> c.id, copy |-> c.copy, then |-> c.then, plan |-> c.plan,
           ids |-> c.ids, linked |-> c.linked, alone |-> c.alone]
  BY <1>1 DEF IsAct
<1>3. act' = [act EXCEPT ![a] = r]
  BY DEF GoOn
<1> HIDE DEF r
<1>4. OthersStay(a) /\ act'[a] = r
  BY <1>3, GoesOnWhole
<1> QED
  BY <1>2, <1>4

LEMMA GivesUpWhole ==
    ASSUME GInv, NEW a \in Actors, GiveUp(a)
    PROVE  OthersStay(a) /\ act'[a].at = "rest" /\ Has(a)'
<1>1. OthersStay(a) /\ act'[a] = AtRest
  BY GoesOnWhole DEF GiveUp
<1>2. AtRest.at = "rest" /\ AtRest.then = "rest"
  BY DEF AtRest, Act
<1> QED
  BY <1>1, <1>2 DEF Has, Carrying, Deleting, Pursuing, OnPlan

-----------------------------------------------------------------------------
(* What one actor does leaves the others what they have.                   *)
LEMMA SameDeps ==
    ASSUME NEW c, NEW e, c.plan = e.plan, c.ids = e.ids, NEW j
    PROVE  DepsOf(c, j) = DepsOf(e, j)
  BY DEF DepsOf, IdOfTitle

LEMMA OthersHave ==
    ASSUME GInv, OInv, NEW a \in Actors, OthersStay(a), named' \in Nat, named <= named',
           removed \subseteq removed', planned' = planned,
           graph' = graph \/ ~Silent(a), Silent(a) => act'[a].at # "work"
    PROVE  \A x \in Actors \ {a} : Has(x)'
<1> SUFFICES ASSUME NEW x \in Actors \ {a} PROVE Has(x)'
  OBVIOUS
<1>1. Has(x) /\ Keeps(x) /\ Company /\ named \in Nat
  BY DEF OInv, OthersStay, GInv, Fresh
<1>2. Given \subseteq Given' /\ \A i, deps : Waits(i, deps) => Waits(i, deps)'
  BY <1>1 DEF Given, Waits
<1>3. Carrying(x)'
  BY <1>1, <1>2 DEF Has, Carrying, Keeps
<1>4. Deleting(x)'
  BY <1>1, <1>2 DEF Has, Deleting, Keeps
<1>5. Pursuing(x)'
  <2> SUFFICES ASSUME OnPlan(x)' PROVE /\ Drafted(act[x])' /\ Links(act[x])'
                                       /\ act'[x].alone = TRUE => LinksStay(act[x])' /\ NotWorkedOn(x)'
    BY DEF Pursuing
  <2>1. /\ OnPlan(x) /\ Drafted(act[x]) /\ Links(act[x])
        /\ act[x].alone = TRUE => LinksStay(act[x]) /\ NotWorkedOn(x)
    BY <1>1 DEF Has, Pursuing, OnPlan, Keeps
  <2>2. Drafted(act[x])'
    <3>1. Seq(Given) \subseteq Seq(Given')
      BY <1>2
    <3> QED
      BY <1>1, <2>1, <3>1 DEF Drafted, Keeps
  <2>3. \A j : DepsOf(act[x], j)' = DepsOf(act[x], j)
    BY <1>1, SameDeps DEF Keeps
  <2>4. Links(act[x])'
    BY <1>1, <2>1, <2>3 DEF Links, Keeps
  <2>5. ASSUME act'[x].alone = TRUE PROVE LinksStay(act[x])' /\ NotWorkedOn(x)'
    <3>1. act[x].alone = TRUE /\ Silent(a) /\ graph' = graph
      BY <1>1, <2>5 DEF Keeps, Company
    <3>2. Written(act[x])' = Written(act[x])
      BY <1>1 DEF Written, Keeps
    <3>3. LinksStay(act[x])'
      BY <1>1, <2>1, <2>3, <3>1, <3>2 DEF LinksStay, Keeps, Stored
    <3>4. NotWorkedOn(x)'
      BY <1>1, <2>1, <3>1 DEF NotWorkedOn, OthersStay, Keeps
    <3> QED
      BY <3>3, <3>4
  <2> QED
    BY <2>2, <2>4, <2>5
<1> QED
  BY <1>3, <1>4, <1>5 DEF Has

(* A step that leaves the files alone.                                     *)
LEMMA OrderStays ==
    ASSUME GInv, OInv, NEW a \in Actors, OthersStay(a), named' \in Nat, named <= named', named' <= MaxBeads,
           removed' = removed, planned' = planned, graph' = graph,
           Silent(a) => act'[a].at # "work", Has(a)'
    PROVE  OInv'
<1>1. \A x \in Actors : Has(x)'
  BY OthersHave
<1>2. Fresh'
  BY DEF OInv, Fresh, Given, Stored, Ids
<1>3. \A i \in Stored' : Waits(i, graph[i].deps)'
  BY DEF OInv, Waits, Stored
<1> QED
  BY <1>1, <1>2, <1>3 DEF OInv

-----------------------------------------------------------------------------
(* A copy is taken of a bead as it is stored, or of a new one.             *)
LEMMA ActParts ==
    ASSUME NEW at, NEW id, NEW copy, NEW then
    PROVE  /\ Act(at, id, copy, then).at = at /\ Act(at, id, copy, then).id = id
           /\ Act(at, id, copy, then).copy = copy /\ Act(at, id, copy, then).then = then
  BY DEF Act

LEMMA StoredWait ==
    ASSUME GInv, OInv, NEW i \in Stored, NEW s
    PROVE  i \in Given /\ Waits(i, [graph[i] EXCEPT !.status = s].deps)
<1>1. IsNode(graph[i]) /\ i \in Given /\ Waits(i, graph[i].deps)
  BY StoredAreNodes DEF OInv, Fresh
<1> PICK n : n = graph[i]
  OBVIOUS
<1>2. [n EXCEPT !.status = s].deps = n.deps
  BY <1>1 DEF IsNode, Node
<1> QED
  BY <1>1, <1>2

LEMMA TakesInOrder ==
    ASSUME GInv, OInv, NEW a \in Actors, NEW id, NEW copy, NEW then,
           NEW at \in {"look", "save"}, TakeUp(a, Act(at, id, copy, then)), then = "rest",
           named' \in Nat, named <= named', named' <= MaxBeads,
           removed' = removed, planned' = planned, graph' = graph,
           id \in Given', Waits(id, copy.deps)
    PROVE  OInv'
<1> DEFINE r == Act(at, id, copy, then)
<1>1. IsAct(r) /\ r.at = at /\ r.id = id /\ r.copy = copy /\ r.then = then
  BY OfAct, ActParts
<1> HIDE DEF r
<1>2. OthersStay(a) /\ Becomes(a, r)
  BY <1>1, TakesUpWhole DEF r
<1>3. Has(a)'
  BY <1>1, <1>2 DEF Becomes, Has, Carrying, Deleting, Pursuing, OnPlan, Waits
<1> QED
  BY <1>1, <1>2, <1>3, OrderStays DEF Becomes

LEMMA OrderOperations ==
    ASSUME GInv, OInv, NEW a \in Operators,
           CreateNode(a) \/ UpdateNode(a) \/ DeleteNode(a) \/ PlanStart(a)
    PROVE  OInv'
<1>1. a \in Actors /\ named \in Nat /\ named <= MaxBeads
  BY DEF Actors, OInv, Fresh
<1>2. CASE CreateNode(a)
  <2>1. PICK parent, deps : TakeUp(a, Act("save", named', Node("task", parent, deps, "ready"), "rest"))
    BY <1>2 DEF CreateNode
  <2>2. named' = named + 1 /\ named' \in Nat /\ named' <= MaxBeads
    BY <1>1, <1>2, BeadGraphAssumption DEF CreateNode
  <2>3. named' \in Given' /\ planned[named'] = {}
    BY <1>1, <2>2, BeadGraphAssumption DEF Given, OInv, Fresh, Ids
  <2> QED
    BY <1>1, <1>2, <2>1, <2>2, <2>3, TakesInOrder DEF CreateNode, Waits
<1>3. CASE UpdateNode(a)
  <2>7. PICK i \in Stored : \E s : TakeUp(a, Act("save", i, [graph[i] EXCEPT !.status = s], "rest"))
    BY <1>3 DEF UpdateNode
  <2>1. PICK s : TakeUp(a, Act("save", i, [graph[i] EXCEPT !.status = s], "rest"))
    BY <2>7
  <2>2. i \in Given' /\ Waits(i, [graph[i] EXCEPT !.status = s].deps)
    BY <1>3, StoredWait DEF UpdateNode, Given, Waits
  <2>0. PICK n : n = [graph[i] EXCEPT !.status = s]
    OBVIOUS
  <2>3. TakeUp(a, Act("save", i, n, "rest")) /\ Waits(i, n.deps)
    BY <2>0, <2>1, <2>2
  <2>4. i \in Given' /\ Waits(i, n.deps)
    BY <2>2, <2>3
  <2>5. named' = named /\ removed' = removed /\ planned' = planned /\ graph' = graph
    BY <1>3 DEF UpdateNode
  <2>6. TakeUp(a, Act("save", i, n, "rest"))
    BY <2>3
  <2> QED
    BY <1>1, <2>4, <2>5, <2>6, TakesInOrder
<1>4. CASE DeleteNode(a)
  <2>1. PICK i, n : TakeUp(a, Act("unlink", i, n, "rest"))
    BY <1>4 DEF DeleteNode
  <2> DEFINE r == Act("unlink", i, n, "rest")
  <2>2. IsAct(r) /\ r.at = "unlink"
    BY OfAct, ActParts
  <2> HIDE DEF r
  <2>3. OthersStay(a) /\ Becomes(a, r)
    BY <1>1, <2>1, <2>2, TakesUpWhole DEF r
  <2>4. Has(a)'
    BY <2>2, <2>3 DEF Becomes, Has, Carrying, Deleting, Pursuing, OnPlan
  <2> QED
    BY <1>1, <1>4, <2>2, <2>3, <2>4, OrderStays DEF Becomes, DeleteNode
<1>5. CASE PlanStart(a)
  <2>1. PICK p \in Plans : TakeUp(a, [AtRest EXCEPT !.at = "plan", !.plan = p])
    BY <1>5 DEF PlanStart
  <2>2. PICK r : r = [AtRest EXCEPT !.at = "plan", !.plan = p]
    OBVIOUS
  <2>3. /\ IsAct(r) /\ r.at = "plan" /\ r.plan = p /\ r.ids = <<>> /\ r.linked = 0 /\ r.then = "rest"
    BY <2>2 DEF AtRest, Act, IsAct
  <2>4. OthersStay(a) /\ Becomes(a, r)
    BY <1>1, <2>1, <2>2, <2>3, TakesUpWhole
  <2>5. Has(a)'
    <3>1. Drafted(act[a])' /\ Links(act[a])'
      BY <2>3, <2>4 DEF Becomes, Drafted, Links
    <3>2. LinksStay(act[a])' /\ NotWorkedOn(a)'
      BY <2>3, <2>4 DEF Becomes, LinksStay, NotWorkedOn, Written
    <3> QED
      BY <2>3, <2>4, <3>1, <3>2 DEF Becomes, Has, Carrying, Deleting, Pursuing
  <2>6. named' = named /\ removed' = removed /\ planned' = planned /\ graph' = graph
    BY <1>5 DEF PlanStart
  <2>7. act'[a].at # "work"
    BY <2>3, <2>4 DEF Becomes
  <2> QED
    BY <1>1, <2>4, <2>5, <2>6, <2>7, OrderStays
<1> QED
  BY <1>2, <1>3, <1>4, <1>5

LEMMA OrderWorkings ==
    ASSUME GInv, OInv, NEW a \in Workers,
           \/ ListReady(a) \/ RecordMissing(a) \/ PassOver(a)
           \/ StartWork(a) \/ EndWork(a) \/ RequeueNode(a)
    PROVE  OInv'
<1>1. a \in Actors /\ named \in Nat /\ named <= MaxBeads
  BY DEF Actors, OInv, Fresh
<1>2. /\ named' = named /\ removed' = removed /\ planned' = planned /\ graph' = graph
  BY DEF ListReady, RecordMissing, PassOver, StartWork, EndWork, RequeueNode
<1>3. CASE RequeueNode(a)
  <2>0. PICK i \in Stored : TakeUp(a, Act("save", i, [graph[i] EXCEPT !.status = "ready"], "rest"))
    BY <1>3 DEF RequeueNode
  <2>1. i \in Given' /\ Waits(i, [graph[i] EXCEPT !.status = "ready"].deps)
    BY <1>2, StoredWait DEF Given
  <2>2. PICK n : n = [graph[i] EXCEPT !.status = "ready"]
    OBVIOUS
  <2>3. TakeUp(a, Act("save", i, n, "rest")) /\ Waits(i, n.deps)
    BY <2>0, <2>1, <2>2
  <2> QED
    BY <1>1, <1>2, <2>1, <2>3, TakesInOrder
<1>4. CASE EndWork(a)
  <2>1. PICK s : TakeUp(a, [act[a] EXCEPT !.at = "save", !.then = "rest", !.copy.status = s])
    BY <1>4 DEF EndWork
  <2> PICK c : c = act[a]
    OBVIOUS
  <2>2. IsAct(c) /\ IsNode(c.copy) /\ c.copy.kind # "none" /\ c.at = "work"
    BY <1>1, <1>4 DEF EndWork, GInv, Shape, Own, Copying
  <2>3. PICK r : r = Resulting(c, s)
    OBVIOUS
  <2>4. IsAct(r) /\ r.at = "save" /\ r.id = c.id /\ r.copy.deps = c.copy.deps /\ r.then = "rest"
    BY <2>2, <2>3, WithResult
  <2>5. OthersStay(a) /\ Becomes(a, r)
    BY <1>1, <2>1, <2>3, <2>4, TakesUpWhole DEF Resulting
  <2>6. Carrying(a)
    BY <1>1 DEF OInv, Has
  <2>7. Has(a)'
    BY <1>2, <2>2, <2>4, <2>5, <2>6 DEF Becomes, Has, Carrying, Deleting, Pursuing, OnPlan, Waits, Given
  <2> QED
    BY <1>1, <1>2, <2>4, <2>5, <2>7, OrderStays DEF Becomes
<1>5. CASE ListReady(a)
  <2>1. PICK i \in Stored : TakeUp(a, Act("look", i, graph[i], "rest"))
    BY <1>5 DEF ListReady
  <2>2. i \in Given' /\ Waits(i, graph[i].deps)
    BY <1>2 DEF OInv, Fresh, Given
  <2> QED
    BY <1>1, <1>2, <2>1, <2>2, TakesInOrder
<1>6. CASE RecordMissing(a)
  <2>1. /\ OthersStay(a) /\ act'[a].at = "write" /\ act'[a].id = act[a].id /\ act'[a].copy = act[a].copy
        /\ act'[a].then = act[a].then /\ act[a].at = "look"
    BY <1>1, <1>6, GoesOnAtWhole DEF RecordMissing
  <2>2. Has(a)
    BY <1>1 DEF OInv
  <2>3. Has(a)'
    BY <1>2, <2>1, <2>2 DEF Has, Carrying, Deleting, Pursuing, OnPlan, Waits, Given
  <2> QED
    BY <1>1, <1>2, <2>1, <2>3, OrderStays
<1>7. CASE PassOver(a)
  BY <1>1, <1>2, <1>7, GivesUpWhole, OrderStays DEF PassOver
<1>8. CASE StartWork(a)
  <2> PICK c : c = act[a]
    OBVIOUS
  <2>1. IsAct(c) /\ IsNode(c.copy) /\ c.copy.kind # "none" /\ c.at = "look"
    BY <1>1, <1>8 DEF GInv, Shape, Own, Copying, StartWork
  <2>2. PICK r : r = Starting(c)
    OBVIOUS
  <2>3. r.at = "save" /\ r.id = c.id /\ r.copy.deps = c.copy.deps /\ r.then = "work"
    BY <2>1, <2>2, WithStart
  <2>4. act' = [act EXCEPT ![a] = r]
    BY <1>8, <2>2 DEF StartWork, Starting
  <2>5. OthersStay(a) /\ act'[a] = r
    BY <1>1, <2>4, GoesOnWhole
  <2>6. Carrying(a)
    BY <1>1 DEF OInv, Has
  <2>7. Has(a)'
    BY <1>2, <2>1, <2>3, <2>5, <2>6 DEF Has, Carrying, Deleting, Pursuing, OnPlan, Waits, Given
  <2> QED
    BY <1>1, <1>2, <2>3, <2>5, <2>7, OrderStays
<1> QED
  BY <1>3, <1>4, <1>5, <1>6, <1>7, <1>8

-----------------------------------------------------------------------------
(* A copy that was taken is carried on.                                    *)
LEMMA LinksKept ==
    ASSUME NEW a \in Actors, OnPlan(a), Pursuing(a), OthersStay(a),
           graph' = graph, named' = named, planned' = planned,
           act'[a].id = act[a].id, act'[a].copy = act[a].copy, act'[a].plan = act[a].plan,
           act'[a].ids = act[a].ids, act'[a].linked = act[a].linked, act'[a].then = act[a].then,
           act'[a].alone = act[a].alone, act[a].at # "plan", act'[a].at # "plan"
    PROVE  Pursuing(a)'
<1>1. \A j : DepsOf(act[a], j)' = DepsOf(act[a], j)
  BY SameDeps
<1>2. Drafted(act[a])' /\ Links(act[a])'
  BY <1>1 DEF Pursuing, Drafted, Links, Given
<1>3. ASSUME act'[a].alone = TRUE PROVE LinksStay(act[a])' /\ NotWorkedOn(a)'
  <2>1. LinksStay(act[a]) /\ NotWorkedOn(a)
    BY <1>3 DEF Pursuing
  <2>2. Written(act[a])' = Written(act[a])
    BY DEF Written
  <2> QED
    BY <1>1, <2>1, <2>2 DEF LinksStay, NotWorkedOn, Stored, OthersStay, Keeps
<1> QED
  BY <1>2, <1>3 DEF Pursuing

LEMMA OrderCalm ==
    ASSUME GInv, OInv, NEW a \in Actors,
           CheckDependencies(a) \/ ListDependents(a) \/ Broken(a)
    PROVE  OInv'
<1>1. /\ named' = named /\ removed' = removed /\ planned' = planned /\ graph' = graph
      /\ named' \in Nat /\ named' <= MaxBeads
  BY DEF CheckDependencies, ListDependents, Broken, OInv, Fresh
<1>2. Has(a)
  BY DEF OInv
<1>3. GiveUp(a) => OInv'
  BY <1>1, GivesUpWhole, OrderStays
<1>4. CASE CheckDependencies(a) /\ GoOn(a, "write")
  <2>1. /\ OthersStay(a) /\ act'[a].at = "write" /\ act'[a].alone = act[a].alone
        /\ act'[a].id = act[a].id /\ act'[a].copy = act[a].copy
        /\ act'[a].then = act[a].then /\ act'[a].plan = act[a].plan /\ act'[a].ids = act[a].ids
        /\ act'[a].linked = act[a].linked /\ act[a].at = "save"
    BY <1>4, GoesOnAtWhole DEF CheckDependencies
  <2>2. Carrying(a)' /\ Deleting(a)'
    BY <1>1, <1>2, <2>1 DEF Has, Carrying, Deleting, Waits, Given
  <2>3. Pursuing(a)'
    <3>1. CASE OnPlan(a)
      BY <1>1, <1>2, <2>1, <3>1, LinksKept DEF Has
    <3>2. CASE ~OnPlan(a)
      BY <2>1, <3>2 DEF Pursuing, OnPlan
    <3> QED
      BY <3>1, <3>2
  <2> QED
    BY <1>1, <2>1, <2>2, <2>3, OrderStays DEF Has
<1>5. CASE ListDependents(a)
  <2>1. PICK c : c = act[a]
    OBVIOUS
  <2>2. PICK r : r = [c EXCEPT !.at = "clean", !.copy = graph]
    OBVIOUS
  <2>3. r.at = "clean" /\ r.copy = graph /\ r.id = c.id /\ c.at = "list"
    BY <1>5, <2>1, <2>2 DEF ListDependents, GInv, Shape, IsAct
  <2>4. act' = [act EXCEPT ![a] = r]
    BY <1>5, <2>1, <2>2 DEF ListDependents
  <2>5. OthersStay(a) /\ act'[a] = r
    BY <2>4, GoesOnWhole
  <2>6. \A i \in Ids : graph[i] # NoNode => i \in Given /\ Waits(i, graph[i].deps)
    BY DEF OInv, Fresh, Stored
  <2>7. Has(a)'
    BY <1>1, <1>2, <2>1, <2>3, <2>5, <2>6 DEF Has, Carrying, Deleting, Pursuing, OnPlan, Waits, Given
  <2> QED
    BY <1>1, <2>3, <2>5, <2>7, OrderStays
<1> QED
  BY <1>3, <1>4, <1>5 DEF CheckDependencies, Broken

LEMMA OrderUnlinks ==
    ASSUME GInv, OInv, NEW a \in Operators, Unlink(a)
    PROVE  OInv'
<1> DEFINE d == act[a].id
<1>1. /\ a \in Actors /\ ~Silent(a) /\ named' = named /\ planned' = planned
      /\ named' \in Nat /\ named' <= MaxBeads
  BY DEF Unlink, Silent, Actors, OInv, Fresh
<1>2. CASE d \notin Stored
  BY <1>1, <1>2, GivesUpWhole, OrderStays DEF Unlink
<1>3. CASE d \in Stored
  <2>1. graph' = [graph EXCEPT ![d] = NoNode] /\ removed' = removed \cup {d} /\ GoOn(a, "list")
    BY <1>3 DEF Unlink
  <2>2. OthersStay(a) /\ act'[a].at = "list" /\ act'[a].id = d
    BY <1>1, <2>1, GoesOnAtWhole
  <2>3. Has(a)'
    BY <2>1, <2>2 DEF Has, Carrying, Deleting, Pursuing, OnPlan
  <2>4. \A x \in Actors : Has(x)'
    BY <1>1, <2>1, <2>2, <2>3, OthersHave
  <2>5. Stored' \subseteq Stored /\ \A i \in Stored' : graph'[i] = graph[i]
    <3>1. graph = [i \in Ids |-> graph[i]]
      BY DEF GInv, Shape, IsGraph
    <3> QED
      BY <2>1, <3>1 DEF Stored
  <2> QED
    BY <1>1, <2>1, <2>4, <2>5 DEF OInv, Fresh, Waits, Given
<1> QED
  BY <1>2, <1>3

(* A dependent of a bead that is removed is written without it.            *)
LEMMA OrderCleans ==
    ASSUME GInv, OInv, NEW a \in Operators, CleanDependent(a)
    PROVE  OInv'
<1> PICK c : c = act[a]
  OBVIOUS
<1>1. /\ a \in Actors /\ ~Silent(a) /\ c.at = "clean" /\ named' = named /\ planned' = planned
      /\ removed' = removed /\ named' \in Nat
  BY DEF CleanDependent, Silent, Actors, OInv, Fresh
<1>2. PICK i \in DependentsLeft(a) :
          LET cleaned == [act[a].copy[i] EXCEPT !.deps = @ \ {act[a].id}]
          IN  /\ graph' = [graph EXCEPT ![i] = cleaned]
              /\ act' = [act EXCEPT ![a].copy[i] = cleaned]
  BY DEF CleanDependent
<1>3. PICK n : n = Cleaned(c, i)
  OBVIOUS
<1>4. PICK r : r = CopyCleaned(c, i)
  OBVIOUS
<1>5. graph' = [graph EXCEPT ![i] = n] /\ act' = [act EXCEPT ![a] = r]
  BY <1>2, <1>3, <1>4 DEF Cleaned, CopyCleaned
<1>6. i \in Ids /\ c.id \in c.copy[i].deps
  BY <1>2 DEF DependentsLeft
<1>7. IsAct(c) /\ IsGraph(c.copy) /\ Has(a)
  BY <1>1 DEF GInv, Shape, Own, Cleaning, OInv
<1>8. n.deps = c.copy[i].deps \ {c.id} /\ c.copy[i] # NoNode
  BY <1>3, <1>6, <1>7, CleanedNode
<1>9. /\ r.copy = [c.copy EXCEPT ![i] = n] /\ r.at = "clean" /\ r.id = c.id /\ r.then = c.then
  <2>1. /\ CopyCleaned(c, i).copy = [c.copy EXCEPT ![i] = Cleaned(c, i)]
        /\ CopyCleaned(c, i).at = c.at /\ CopyCleaned(c, i).id = c.id /\ CopyCleaned(c, i).then = c.then
    BY <1>7, WithCleaned
  <2> QED
    BY <1>1, <1>3, <1>4, <2>1
<1>10. OthersStay(a) /\ act'[a] = r
  BY <1>1, <1>5, GoesOnWhole
<1>11. /\ c.id \in removed
       /\ \A j \in Ids : c.copy[j] # NoNode => j \in Given /\ Waits(j, c.copy[j].deps)
  BY <1>1, <1>7 DEF Has, Deleting
<1>12. i \in Given /\ Waits(i, n.deps)
  BY <1>6, <1>8, <1>11 DEF Waits
<1>13. Has(a)'
  <2>1. \A j \in Ids : r.copy[j] # NoNode => j \in Given' /\ Waits(j, r.copy[j].deps)'
    <3>1. c.copy = [j \in Ids |-> c.copy[j]]
      BY <1>7 DEF IsGraph
    <3> QED
      BY <1>1, <1>6, <1>9, <1>11, <1>12, <3>1 DEF Waits, Given
  <2>2. Deleting(a)' /\ Carrying(a)' /\ Pursuing(a)'
    BY <1>1, <1>9, <1>10, <1>11, <2>1 DEF Carrying, Deleting, Pursuing, OnPlan
  <2> QED
    BY <2>2 DEF Has
<1>14. \A x \in Actors : Has(x)'
  BY <1>1, <1>10, <1>13, OthersHave
<1>15. \A j \in Stored' : j \in Given /\ Waits(j, graph'[j].deps)
  <2>1. graph = [j \in Ids |-> graph[j]]
    BY DEF GInv, Shape, IsGraph
  <2> QED
    BY <1>5, <1>6, <1>12, <2>1 DEF Stored, OInv, Fresh
<1> QED
  BY <1>1, <1>14, <1>15 DEF OInv, Fresh, Waits, Given

LEMMA OrderDeleteEnds ==
    ASSUME GInv, OInv, NEW a \in Operators, DeleteEnd(a)
    PROVE  OInv'
<1>1. /\ a \in Actors /\ named' = named /\ removed' = removed /\ planned' = planned /\ graph' = graph
      /\ named \in Nat /\ named <= MaxBeads /\ GiveUp(a)
  BY DEF DeleteEnd, Actors, OInv, Fresh
<1> QED
  BY <1>1, GivesUpWhole, OrderStays

-----------------------------------------------------------------------------
(* A plan of the proposals is a sequence, and so are the ids given for it. *)
LEMMA DraftFacts ==
    ASSUME NEW c, Drafted(c), named \in Nat
    PROVE  /\ Len(c.plan) \in Nat \ {0} /\ DOMAIN c.plan = 1..Len(c.plan)
           /\ Len(c.ids) \in Nat /\ DOMAIN c.ids = 1..Len(c.ids)
           /\ \A k \in 1..Len(c.ids) : c.ids[k] \in Given /\ planned[c.ids[k]] = {}
           /\ \A k, l \in 1..Len(c.ids) : c.ids[k] = c.ids[l] => k = l
<1>1. c.plan \in Plans /\ c.ids \in Seq(Given)
  BY DEF Drafted
<1>2. Len(c.ids) \in Nat /\ DOMAIN c.ids = 1..Len(c.ids) /\ \A k \in 1..Len(c.ids) : c.ids[k] \in Given
  BY <1>1
<1>3. Len(c.plan) \in Nat \ {0} /\ DOMAIN c.plan = 1..Len(c.plan)
  BY <1>1, BeadGraphAssumption
<1> QED
  BY <1>2, <1>3 DEF Drafted

(* What a plan holds while it writes: the file of a bead of its own.       *)
LEMMA WritesLink ==
    ASSUME GInv, OInv, NEW a \in Actors, WriteNode(a), OnPlan(a), OthersStay(a),
           act'[a].at \in {"plan", "rewrite"}, act'[a].alone = act[a].alone,
           act'[a].id = act[a].id, act'[a].copy = act[a].copy,
           act'[a].then = act[a].then, act'[a].plan = act[a].plan, act'[a].ids = act[a].ids,
           act'[a].linked = act[a].linked
    PROVE  Pursuing(a)'
<1> DEFINE c == act[a]
<1>1. /\ graph' = [graph EXCEPT ![c.id] = c.copy] /\ named' = named /\ planned' = planned
      /\ c.at # "plan" /\ named \in Nat
  BY DEF WriteNode, OInv, Fresh
<1>2. Drafted(c) /\ Links(c)
  BY DEF OInv, Has, Pursuing
<1>3. \A j : DepsOf(c, j)' = DepsOf(c, j)
  BY SameDeps
<1>4. Drafted(c)' /\ Links(c)'
  BY <1>1, <1>2, <1>3 DEF Drafted, Links, Given
<1>5. ASSUME c.alone = TRUE PROVE LinksStay(c)' /\ NotWorkedOn(a)'
  <2>1. LinksStay(c) /\ NotWorkedOn(a)
    BY <1>5 DEF OInv, Has, Pursuing
  <2>2. NotWorkedOn(a)'
    BY <2>1 DEF NotWorkedOn, OthersStay, Keeps
  <2>3. ASSUME NEW j \in Written(c)', c.ids[j + 1] \in Stored'
        PROVE  DepsOf(c, j) \subseteq graph'[c.ids[j + 1]].deps
    <3>1. c.linked \in Nat /\ j \in 2..c.linked
      BY <1>1, <1>2, <2>3 DEF Links, Written
    <3>2. c.linked # 0 /\ c.linked <= Len(c.plan) /\ Len(c.ids) = Len(c.plan) + 1 /\ c.id = c.ids[c.linked + 1]
          /\ c.copy.deps = DepsOf(c, c.linked)
      BY <1>1, <1>2, <3>1 DEF Links
    <3>3. graph = [i \in Ids |-> graph[i]] /\ c.ids[j + 1] \in Ids
      BY <2>3 DEF GInv, Shape, IsGraph, Stored
    <3>4. CASE j = c.linked
      BY <1>1, <3>2, <3>3, <3>4
    <3>5. CASE j # c.linked
      <4>1. j \in Written(c)
        BY <1>1, <3>1, <3>5 DEF Written
      <4>2. j + 1 \in 1..Len(c.ids) /\ c.linked + 1 \in 1..Len(c.ids)
        BY <1>1, <1>2, <3>1, <3>2, DraftFacts
      <4>3. c.ids[j + 1] # c.id
        BY <1>1, <1>2, <3>1, <3>2, <3>5, <4>2, DraftFacts
      <4>4. graph'[c.ids[j + 1]] = graph[c.ids[j + 1]]
        BY <1>1, <3>3, <4>3
      <4>5. c.ids[j + 1] \in Stored
        BY <2>3, <3>3, <4>4 DEF Stored
      <4> QED
        BY <2>1, <4>1, <4>4, <4>5 DEF LinksStay
    <3> QED
      BY <3>4, <3>5
  <2> QED
    BY <1>3, <2>2, <2>3 DEF LinksStay
<1> QED
  BY <1>4, <1>5 DEF Pursuing

LEMMA OrderWrites ==
    ASSUME GInv, OInv, NEW a \in Actors, WriteNode(a)
    PROVE  OInv'
<1> DEFINE c == act[a]
<1>1. /\ graph' = [graph EXCEPT ![c.id] = c.copy] /\ named' = named /\ planned' = planned /\ removed' = removed
      /\ c.at \in {"write", "rewrite"} /\ named \in Nat /\ named <= MaxBeads
  BY DEF WriteNode, OInv, Fresh
<1>2. Has(a) /\ c.id \in Given /\ Waits(c.id, c.copy.deps) /\ ~Silent(a)
  BY <1>1 DEF OInv, Has, Carrying, Silent
<1>3. OthersStay(a) /\ Has(a)'
  <2>1. CASE GiveUp(a)
    BY <2>1, GivesUpWhole
  <2>2. CASE ~GiveUp(a)
    <3>1. PICK at : GoOn(a, at) /\ (at = "rewrite" \/ (at = c.then /\ c.then # "rest"))
      BY <2>2 DEF WriteNode
    <3>2. /\ OthersStay(a) /\ act'[a].at = at /\ act'[a].alone = act[a].alone
          /\ act'[a].id = act[a].id /\ act'[a].copy = act[a].copy
          /\ act'[a].then = act[a].then /\ act'[a].plan = act[a].plan /\ act'[a].ids = act[a].ids
          /\ act'[a].linked = act[a].linked
      BY <3>1, GoesOnAtWhole
    <3>3. at \in {"rewrite", "work", "plan"} /\ (at = "plan" => c.then = "plan") /\ (at = "work" => c.then = "work")
      BY <3>1 DEF GInv, Shape, IsAct
    <3>4. Carrying(a)' /\ Deleting(a)'
      BY <1>1, <1>2, <3>2, <3>3 DEF Carrying, Deleting, Waits, Given
    <3>5. Pursuing(a)'
      <4>1. CASE c.then = "plan"
        <5>1. OnPlan(a) /\ at # "work"
          BY <1>1, <3>3, <4>1 DEF OnPlan
        <5> QED
          BY <3>2, <3>3, <5>1, WritesLink
      <4>2. CASE c.then # "plan"
        BY <3>2, <3>3, <4>2 DEF Pursuing, OnPlan
      <4> QED
        BY <4>1, <4>2
    <3> QED
      BY <3>2, <3>4, <3>5 DEF Has
  <2> QED
    BY <2>1, <2>2
<1>4. \A x \in Actors : Has(x)'
  BY <1>1, <1>2, <1>3, OthersHave
<1>5. graph = [i \in Ids |-> graph[i]]
  BY DEF GInv, Shape, IsGraph
<1>6. \A i \in Stored' : i \in Given /\ Waits(i, graph'[i].deps)
  BY <1>1, <1>2, <1>5 DEF Stored, OInv, Fresh
<1> QED
  BY <1>1, <1>4, <1>6 DEF OInv, Fresh, Waits, Given


-----------------------------------------------------------------------------
(* A plan takes a new bead in hand, or one of its own to give it what it   *)
(* depends on.                                                             *)
LEMMA OrderCreates ==
    ASSUME GInv, OInv, NEW a \in Actors, PlanCreate(a)
    PROVE  OInv'
<1> PICK c : c = act[a]
  OBVIOUS
<1>1. /\ removed' = removed /\ planned' = planned /\ graph' = graph
      /\ ~Silent(a) /\ OnPlan(a) /\ c.at = "plan" /\ Len(c.ids) <= Len(c.plan)
      /\ named \in Nat /\ named <= MaxBeads /\ MaxBeads \in Nat
  BY BeadGraphAssumption DEF PlanCreate, Silent, OnPlan, OInv, Fresh
<1>2. CASE GiveUp(a) /\ named' = named
  BY <1>1, <1>2, GivesUpWhole, OrderStays
<1>3. CASE ~(GiveUp(a) /\ named' = named)
  <2>1. PICK m, n, k : m = named' /\ n = PlanNode(c) /\ k = Append(c.ids, m)
    OBVIOUS
  <2>2. m = named + 1 /\ m \in Nat /\ m <= MaxBeads /\ m \in Given' /\ m \notin Given
    BY <1>1, <1>3, <2>1 DEF PlanCreate, Given
  <2>3. act' = [act EXCEPT ![a] = [@ EXCEPT !.at = "save", !.then = "plan", !.id = m, !.copy = n, !.ids = k]]
    BY <1>3, <2>1 DEF PlanCreate
  <2>4. PICK r : r = NodeTaken(c, m, n, k)
    OBVIOUS
  <2>5. act' = [act EXCEPT ![a] = r]
    BY <2>3, <2>4 DEF NodeTaken
  <2>6. IsAct(c)
    BY DEF GInv, Shape
  <2>7. r = [at |-> "save", id |-> m, copy |-> n, then |-> "plan", plan |-> c.plan, ids |-> k,
             linked |-> c.linked, alone |-> c.alone]
    BY <2>4, <2>6, WithNode
  <2>8. OthersStay(a) /\ act'[a] = r
    BY <2>5, GoesOnWhole
  <2>9. planned[m] = {}
    BY <1>1, <2>2 DEF OInv, Fresh, Ids
  <2>10. Drafted(c) /\ Links(c) /\ (c.alone = TRUE => NotWorkedOn(a))
    BY <1>1 DEF OInv, Has, Pursuing
  <2>11. Drafted(r)'
    <3>1. Given \subseteq Given'
      BY <1>1, <2>1, <2>2 DEF Given
    <3>2. c.ids \in Seq(Given') /\ k \in Seq(Given')
      <4>1. c.ids \in Seq(Given')
        BY <2>10, <3>1 DEF Drafted
      <4> QED
        BY <2>1, <2>2, <4>1
    <3>3. /\ Len(c.ids) \in Nat /\ DOMAIN k = 1..(Len(c.ids) + 1)
          /\ \A j \in 1..Len(c.ids) : k[j] = c.ids[j]
          /\ k[Len(c.ids) + 1] = m
      BY <2>1, <3>2
    <3>4. \A j \in 1..Len(c.ids) : c.ids[j] \in Given /\ planned[c.ids[j]] = {}
      BY <1>1, <2>10, DraftFacts
    <3>5. \A j, l \in 1..Len(c.ids) : c.ids[j] = c.ids[l] => j = l
      BY <1>1, <2>10, DraftFacts
    <3>6. \A j \in DOMAIN k : planned[k[j]] = {}
      <4> TAKE j \in DOMAIN k
      <4>1. j \in 1..Len(c.ids) \/ j = Len(c.ids) + 1
        BY <3>3
      <4>2. CASE j \in 1..Len(c.ids)
        BY <3>3, <3>4, <4>2
      <4> QED
        BY <2>9, <3>3, <4>1, <4>2
    <3>7. \A j, l \in DOMAIN k : k[j] = k[l] => j = l
      BY <2>2, <3>3, <3>4, <3>5
    <3>8. c.plan \in Plans
      BY <2>10 DEF Drafted
    <3> QED
      BY <1>1, <2>7, <3>2, <3>6, <3>7, <3>8 DEF Drafted
  <2>12. c.linked = 0
    <3>1. Len(c.plan) \in Nat
      BY <1>1, <2>10, DraftFacts
    <3> QED
      BY <1>1, <2>10, <3>1 DEF Links
  <2>13. Links(r)' /\ LinksStay(r)'
    BY <2>7, <2>12 DEF Links, LinksStay, Written
  <2>14. c.alone = TRUE => NotWorkedOn(a)'
    <3>0. act'[a].ids = k
      BY <2>7, <2>8
    <3> SUFFICES ASSUME c.alone = TRUE, NEW w \in Actors \ {a}, act'[w].at = "work", NEW j \in DOMAIN k
                 PROVE  k[j] # act'[w].id
      BY <3>0 DEF NotWorkedOn
    <3>1. act[w].at = "work" /\ act'[w].id = act[w].id
      BY <2>8 DEF OthersStay, Keeps
    <3>2. act[w].id \in Given
      BY <3>1 DEF OInv, Has, Carrying
    <3>3. \A l \in DOMAIN c.ids : c.ids[l] # act[w].id
      BY <2>10, <3>1 DEF NotWorkedOn
    <3>4. /\ Len(c.ids) \in Nat /\ DOMAIN c.ids = 1..Len(c.ids)
      BY <1>1, <2>10, DraftFacts
    <3>5. c.ids \in Seq(Given)
      BY <2>10 DEF Drafted
    <3>6. (j \in 1..Len(c.ids) /\ k[j] = c.ids[j]) \/ k[j] = m
      BY <2>1, <2>2, <3>4, <3>5
    <3> QED
      BY <2>2, <3>1, <3>2, <3>3, <3>4, <3>6
  <2>15. Has(a)'
    <3>1. Carrying(a)' /\ Deleting(a)'
      BY <1>1, <2>2, <2>7, <2>8, <2>9 DEF Carrying, Deleting, Waits
    <3> QED
      BY <2>7, <2>8, <2>11, <2>13, <2>14, <3>1 DEF Has, Pursuing
  <2> QED
    BY <1>1, <2>1, <2>2, <2>7, <2>8, <2>15, OrderStays
<1> QED
  BY <1>2, <1>3

LEMMA OrderLinks ==
    ASSUME GInv, OInv, NEW a \in Actors, PlanLink(a)
    PROVE  OInv'
<1> PICK c : c = act[a]
  OBVIOUS
<1>1. /\ removed' = removed /\ planned' = planned /\ graph' = graph /\ named' = named
      /\ ~Silent(a) /\ OnPlan(a) /\ c.at = "plan" /\ Len(c.ids) = Len(c.plan) + 1
      /\ named \in Nat /\ named <= MaxBeads
  BY DEF PlanLink, Silent, OnPlan, OInv, Fresh
<1>2. CASE GiveUp(a)
  BY <1>1, <1>2, GivesUpWhole, OrderStays
<1>3. CASE ~GiveUp(a)
  <2>1. PICK i : i = IF c.linked = 0 THEN 2 ELSE c.linked + 1
    OBVIOUS
  <2>2. PICK x : x = c.ids[i + 1]
    OBVIOUS
  <2>3. i <= Len(c.plan) /\ x \in Stored
    BY <1>3, <2>1, <2>2 DEF PlanLink
  <2>4. PICK n : n = [graph[x] EXCEPT !.deps = DepsOf(c, i)]
    OBVIOUS
  <2>5. n.deps = DepsOf(c, i)
    BY <2>3, <2>4, StoredAreNodes, SetDeps
  <2>6. act' = [act EXCEPT ![a] = [@ EXCEPT !.at = "save", !.linked = i, !.id = x, !.copy = n]]
    BY <1>3, <2>1, <2>2, <2>4 DEF PlanLink
  <2>7. PICK r : r = LinkTaken(c, i, x, n)
    OBVIOUS
  <2>8. act' = [act EXCEPT ![a] = r]
    BY <2>6, <2>7 DEF LinkTaken
  <2>9. IsAct(c)
    BY DEF GInv, Shape
  <2>10. r = [at |-> "save", id |-> x, copy |-> n, then |-> c.then, plan |-> c.plan, ids |-> c.ids,
              linked |-> i, alone |-> c.alone]
    BY <2>7, <2>9, WithLink
  <2>11. OthersStay(a) /\ act'[a] = r
    BY <2>8, GoesOnWhole
  <2>12. Drafted(c) /\ Links(c) /\ (c.alone = TRUE => LinksStay(c) /\ NotWorkedOn(a))
    BY <1>1 DEF OInv, Has, Pursuing
  <2>13. i \in Nat /\ i >= 2 /\ Len(c.plan) \in Nat
    BY <1>1, <2>1, <2>12, DraftFacts DEF Links
  <2>14. x \in Given /\ planned[x] = {}
    <3>1. i + 1 \in 1..Len(c.ids)
      BY <1>1, <2>3, <2>13
    <3> QED
      BY <1>1, <2>2, <2>12, <3>1, DraftFacts
  <2>15. \A j : DepsOf(c, j) = DepsOf(r, j)
    BY <2>10, SameDeps
  <2>16. Drafted(r)' /\ Links(r)'
    <3>1. Drafted(r)'
      BY <1>1, <2>10, <2>12 DEF Drafted, Given
    <3>2. Links(r)
      BY <1>1, <2>2, <2>3, <2>5, <2>10, <2>13, <2>15 DEF Links
    <3>3. Links(r)'
      BY <3>2 DEF Links, DepsOf, IdOfTitle
    <3> QED
      BY <3>1, <3>3
  <2>17. c.alone = TRUE => LinksStay(r)'
    <3>1. Written(r) \subseteq Written(c)
      BY <1>1, <2>1, <2>10, <2>12 DEF Written, Links
    <3>2. c.alone = TRUE => LinksStay(r)
      BY <2>10, <2>12, <2>15, <3>1 DEF LinksStay
    <3> QED
      BY <1>1, <3>2 DEF LinksStay, Stored, Written, DepsOf, IdOfTitle
  <2>18. c.alone = TRUE => NotWorkedOn(a)'
    BY <2>10, <2>11, <2>12 DEF NotWorkedOn, OthersStay, Keeps
  <2>19. Has(a)'
    <3>1. Carrying(a)' /\ Deleting(a)'
      BY <1>1, <2>10, <2>11, <2>14 DEF Carrying, Deleting, Waits, Given
    <3> QED
      BY <2>10, <2>11, <2>16, <2>17, <2>18, <3>1 DEF Has, Pursuing
  <2> QED
    BY <1>1, <2>10, <2>11, <2>19, OrderStays
<1> QED
  BY <1>2, <1>3

-----------------------------------------------------------------------------
(* A plan that is written without company notes what it wanted, and each   *)
(* bead of it that is stored depends on that.                              *)
LEMMA AfterIsDeps ==
    ASSUME NEW c, DOMAIN c.plan \subseteq Nat, NEW i
    PROVE  After(c, i) \subseteq DepsOf(c, i)
<1> SUFFICES ASSUME NEW j \in DOMAIN c.plan, c.plan[j].title \in c.plan[i].after,
                    \A l \in DOMAIN c.plan : c.plan[l].title = c.plan[j].title => l <= j
             PROVE  c.ids[j + 1] \in DepsOf(c, i)
  BY DEF After
<1> DEFINE t == c.plan[j].title
           titled == {k \in DOMAIN c.plan : c.plan[k].title = t}
<1>1. j \in titled /\ (\A l \in titled : j >= l) /\ titled \subseteq Nat
  OBVIOUS
<1>2. IdOfTitle(c, t) = IF titled # {} THEN c.ids[Max(titled) + 1]
                        ELSE IF t = "EPIC" THEN c.ids[1] ELSE Nowhere
  BY DEF IdOfTitle
<1>3. t \in c.plan[i].after
  OBVIOUS
<1> HIDE DEF titled, t
<1>4. Max(titled) = j
  BY <1>1 DEF Max
<1> QED
  BY <1>1, <1>2, <1>3, <1>4 DEF DepsOf

LEMMA OrderEnds ==
    ASSUME GInv, OInv, NEW a \in Actors, PlanEnd(a)
    PROVE  OInv'
<1> PICK c : c = act[a]
  OBVIOUS
<1>1. /\ removed' = removed /\ graph' = graph /\ named' = named /\ GiveUp(a)
      /\ ~Silent(a) /\ OnPlan(a) /\ c.at = "plan" /\ Len(c.ids) = Len(c.plan) + 1
      /\ c.linked = Len(c.plan) \/ Len(c.plan) = 1
      /\ named \in Nat /\ named <= MaxBeads
  BY DEF PlanEnd, Silent, OnPlan, OInv, Fresh
<1>2. OthersStay(a) /\ act'[a].at = "rest" /\ Has(a)'
  BY <1>1, GivesUpWhole
<1>3. CASE c.alone # TRUE
  <2>1. planned' = planned
    BY <1>3 DEF PlanEnd
  <2> QED
    BY <1>1, <1>2, <2>1, OrderStays
<1>4. CASE c.alone = TRUE
  <2>1. planned' = [b \in Ids |-> Wanted(c, b) \cup planned[b]]
    BY <1>4 DEF PlanEnd
  <2>2. Drafted(c) /\ Links(c) /\ LinksStay(c) /\ NotWorkedOn(a)
    BY <1>1, <1>4 DEF OInv, Has, Pursuing
  <2>3. /\ Len(c.plan) \in Nat /\ DOMAIN c.plan = 1..Len(c.plan) /\ DOMAIN c.ids = 1..Len(c.ids)
        /\ \A j \in 2..Len(c.plan) : j + 1 \in DOMAIN c.ids /\ c.ids[j + 1] \in Given
    BY <1>1, <2>2, DraftFacts
  <2>0. \A b : \A d \in Wanted(c, b) : \E j \in 2..Len(c.plan) : c.ids[j + 1] = b /\ d \in After(c, j)
    BY DEF Wanted
  <2>4. \A b \in Ids : (\A j \in 2..Len(c.plan) : c.ids[j + 1] # b) => planned'[b] = planned[b]
    BY <2>0, <2>1
  <2>5. \A b \in Ids : \A d \in planned'[b] :
            d \in planned[b] \/ \E j \in 2..Len(c.plan) : c.ids[j + 1] = b /\ d \in After(c, j)
    BY <2>0, <2>1
  <2>6. \A j \in 2..Len(c.plan) : j \in Written(c)
    <3>1. CASE c.linked = Len(c.plan)
      BY <1>1, <3>1 DEF Written
    <3>2. CASE Len(c.plan) = 1
      BY <3>2
    <3> QED
      BY <1>1, <3>1, <3>2
  <2>7. \A j : After(c, j) \subseteq DepsOf(c, j)
    BY <2>3, AfterIsDeps
  <2>8. ASSUME NEW b \in Stored PROVE Waits(b, graph[b].deps)'
    <3> SUFFICES ASSUME NEW d \in planned'[b] PROVE d \in graph[b].deps \/ d \in removed
      BY <1>1 DEF Waits
    <3>1. CASE d \in planned[b]
      BY <3>1 DEF OInv, Waits
    <3>2. CASE d \notin planned[b]
      <4>1. PICK j \in 2..Len(c.plan) : c.ids[j + 1] = b /\ d \in After(c, j)
        BY <2>5, <3>2 DEF Stored
      <4> QED
        BY <2>2, <2>6, <2>7, <4>1 DEF LinksStay
    <3> QED
      BY <3>1, <3>2
  <2>9. Fresh'
    <3>1. \A b \in Ids \ Given : planned'[b] = {}
      BY <2>3, <2>4 DEF OInv, Fresh
    <3> QED
      BY <1>1, <3>1 DEF OInv, Fresh, Given, Stored
  <2>10. ASSUME NEW x \in Actors \ {a} PROVE Has(x)'
    <3>1. Silent(x) /\ Keeps(x) /\ Carrying(x)
      BY <1>2, <1>4 DEF GInv, Company, OthersStay, OInv, Has
    <3>2. Deleting(x)' /\ Pursuing(x)'
      BY <3>1 DEF Deleting, Pursuing, OnPlan, Keeps, Silent
    <3>3. ASSUME act[x].at = "work" PROVE Waits(act[x].id, act[x].copy.deps)'
      <4>1. act[x].id \in Given /\ Waits(act[x].id, act[x].copy.deps)
        BY <3>1, <3>3 DEF Carrying
      <4>2. act[x].id \in Ids
        BY <1>1, <4>1, BeadGraphAssumption DEF Given, Ids
      <4>3. planned'[act[x].id] = planned[act[x].id]
        BY <2>2, <2>3, <2>4, <3>3, <4>2 DEF NotWorkedOn
      <4> QED
        BY <1>1, <3>1, <4>1, <4>3 DEF Waits, Keeps
    <3>4. Carrying(x)'
      BY <1>1, <3>1, <3>3 DEF Carrying, Keeps, Silent, Given
    <3> QED
      BY <3>2, <3>4 DEF Has
  <2>11. Stored' = Stored
    BY <1>1 DEF Stored
  <2> QED
    BY <1>2, <2>8, <2>9, <2>10, <2>11 DEF OInv
<1> QED
  BY <1>3, <1>4

LEMMA OrderSteps == GInv /\ OInv /\ [GraphNext]_graphVars => OInv'
<1> SUFFICES ASSUME GInv, OInv, [GraphNext]_graphVars PROVE OInv'
  OBVIOUS
<1>1. CASE UNCHANGED graphVars
  <2>1. graph' = graph /\ act' = act /\ named' = named /\ removed' = removed /\ planned' = planned
    BY <1>1 DEF graphVars
  <2>2. \A i, deps : Waits(i, deps)' <=> Waits(i, deps)
    BY <2>1 DEF Waits
  <2>3. ASSUME NEW x \in Actors PROVE Has(x)'
    <3>1. Has(x)
      BY DEF OInv
    <3>2. Carrying(x)' /\ Deleting(x)'
      BY <2>1, <2>2, <3>1 DEF Has, Carrying, Deleting, Given
    <3>3. \A j : DepsOf(act[x], j)' = DepsOf(act[x], j)
      BY <2>1, SameDeps
    <3>4. Pursuing(x)'
      BY <2>1, <3>1, <3>3 DEF Has, Pursuing, OnPlan, Drafted, Links, Written, LinksStay, NotWorkedOn, Given,
                              Stored
    <3> QED
      BY <3>2, <3>4 DEF Has
  <2> QED
    BY <2>1, <2>2, <2>3 DEF OInv, Fresh, Given, Stored
<1>2. ASSUME NEW a \in Actors, CheckDependencies(a) \/ WriteNode(a) \/ Broken(a)
      PROVE  OInv'
  BY <1>2, OrderCalm, OrderWrites
<1>3. ASSUME NEW a \in Operators,
             \/ CreateNode(a) \/ UpdateNode(a)
             \/ DeleteNode(a) \/ Unlink(a) \/ ListDependents(a) \/ CleanDependent(a) \/ DeleteEnd(a)
             \/ PlanStart(a) \/ PlanCreate(a) \/ PlanLink(a) \/ PlanEnd(a)
      PROVE  OInv'
  <2>1. a \in Actors
    BY DEF Actors
  <2> QED
    BY <1>3, <2>1, OrderOperations, OrderUnlinks, OrderCalm, OrderCleans, OrderDeleteEnds, OrderCreates, OrderLinks, OrderEnds
<1>4. ASSUME NEW w \in Workers,
             \/ ListReady(w) \/ RecordMissing(w) \/ PassOver(w)
             \/ StartWork(w) \/ EndWork(w) \/ RequeueNode(w)
      PROVE  OInv'
  BY <1>4, OrderWorkings
<1> QED
  BY <1>1, <1>2, <1>3, <1>4 DEF GraphNext

-----------------------------------------------------------------------------
(* Who has looked for what a bead depends on, and saves it, starts it.     *)
LEMMA OthersGoOn ==
    ASSUME GInv, NEW a \in Actors, NEW w \in Actors \ {a},
           (\E r : TakeUp(a, r)) \/ (\E r : act' = [act EXCEPT ![a] = r])
    PROVE  act'[w].at = act[w].at
<1> PICK c : c = act[w]
  OBVIOUS
<1>1. IsAct(c)
  BY DEF GInv, Shape
<1>2. CASE \E r : TakeUp(a, r)
  <2>1. PICK r : TakeUp(a, r)
    BY <1>2
  <2>2. act'[w] = [c EXCEPT !.alone = FALSE]
    BY <2>1 DEF TakeUp, Becoming
  <2> QED
    BY <1>1, <2>2 DEF IsAct
<1>3. CASE \E r : act' = [act EXCEPT ![a] = r]
  BY <1>3 DEF GInv, Shape
<1> QED
  BY <1>2, <1>3

LEMMA NobodyElse ==
    ASSUME GInv, NEW w \in Workers, act[w].at = "look", act'[w].at = "save", GraphNext
    PROVE  StartWork(w)
<1>1. w \in Actors
  BY DEF Actors
<1>2. ASSUME NEW a \in Actors \ {w}, (\E r : TakeUp(a, r)) \/ (\E r : act' = [act EXCEPT ![a] = r])
      PROVE  FALSE
  BY <1>1, <1>2, OthersGoOn
<1>3. ~(GiveUp(w) \/ GoOn(w, "write"))
  <2>1. ~GiveUp(w)
    BY <1>1, GivesUp
  <2>2. ~GoOn(w, "write")
    BY <1>1, GoesOnAt DEF Silent
  <2> QED
    BY <2>1, <2>2
<1>4. ASSUME NEW a \in Actors, CheckDependencies(a) \/ WriteNode(a) \/ Broken(a)
      PROVE  FALSE
  <2>1. GiveUp(a) \/ \E at : GoOn(a, at)
    BY <1>4 DEF CheckDependencies, WriteNode, Broken
  <2>2. a = w
    BY <1>2, <2>1 DEF GiveUp, GoOn
  <2> QED
    BY <1>3, <1>4, <2>2 DEF CheckDependencies, WriteNode, Broken
<1>5. ASSUME NEW a \in Operators,
             CreateNode(a) \/ UpdateNode(a) \/ DeleteNode(a) \/ PlanStart(a)
      PROVE  FALSE
  <2>1. \E r : TakeUp(a, r)
    BY <1>5 DEF CreateNode, UpdateNode, DeleteNode, PlanStart
  <2>2. a # w
    BY <1>5 DEF CreateNode, UpdateNode, DeleteNode, PlanStart, FirstSteps, Silent
  <2> QED
    BY <1>2, <2>1, <2>2 DEF Actors
<1>6. ASSUME NEW a \in Operators,
             \/ Unlink(a) \/ ListDependents(a) \/ CleanDependent(a) \/ DeleteEnd(a)
             \/ PlanCreate(a) \/ PlanLink(a) \/ PlanEnd(a)
      PROVE  FALSE
  <2>1. a # w /\ a \in Actors
    BY <1>6 DEF Unlink, ListDependents, CleanDependent, DeleteEnd, PlanCreate, PlanLink, PlanEnd, Actors
  <2>2. \E r : act' = [act EXCEPT ![a] = r]
    BY <1>6 DEF Unlink, ListDependents, CleanDependent, DeleteEnd, PlanCreate, PlanLink, PlanEnd, GiveUp, GoOn
  <2> QED
    BY <1>2, <2>1, <2>2
<1>7. ASSUME NEW a \in Workers,
             ListReady(a) \/ RecordMissing(a) \/ PassOver(a) \/ EndWork(a) \/ RequeueNode(a)
      PROVE  FALSE
  <2>1. (\E r : TakeUp(a, r)) \/ (\E r : act' = [act EXCEPT ![a] = r])
    BY <1>7 DEF ListReady, RecordMissing, PassOver, EndWork, RequeueNode, GiveUp, GoOn
  <2>2. a = w
    BY <1>2, <2>1 DEF Actors
  <2> QED
    BY <1>3, <1>7, <2>2 DEF ListReady, RecordMissing, PassOver, EndWork, RequeueNode
<1>8. ASSUME NEW a \in Workers, a # w, StartWork(a)
      PROVE  FALSE
  BY <1>2, <1>8 DEF StartWork, Actors
<1> QED
  BY <1>4, <1>5, <1>6, <1>7, <1>8 DEF GraphNext

(* A bead is started only when what a plan wanted done before it is done   *)
(* or was deleted, if nobody edited beads while the plan was written, and  *)
(* whatever commands, runs and kills come after it (planner.py             *)
(* write_plan, core.py run_once).                                          *)
THEOREM StartedInOrder == GraphSpec => PlanOrder
<1> DEFINE InOrder ==
        \A w \in Workers :
            (act[w].at = "look" /\ act'[w].at = "save") =>
                \A d \in planned[act[w].id] : Done(d) \/ d \in removed
<1>1. GInv /\ OInv /\ [GraphNext]_graphVars => [InOrder]_act
  <2> SUFFICES ASSUME GInv, OInv, GraphNext, NEW w \in Workers, act[w].at = "look", act'[w].at = "save",
                      NEW d \in planned[act[w].id]
               PROVE  Done(d) \/ d \in removed
    BY DEF graphVars
  <2>1. StartWork(w) /\ w \in Actors
    BY NobodyElse DEF Actors
  <2>2. Waits(act[w].id, act[w].copy.deps)
    BY <2>1 DEF OInv, Has, Carrying
  <2> QED
    BY <2>1, <2>2 DEF StartWork, Waits
<1> QED
  BY <1>1, GraphInitially, GraphSteps, OrderInitially, OrderSteps, PTL DEF GraphSpec, PlanOrder
=============================================================================
