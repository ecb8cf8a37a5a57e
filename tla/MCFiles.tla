------------------------------ MODULE MCFiles -------------------------------
(***************************************************************************)
(* What commands keep in files without the scheduler's help: the memory,   *)
(* the specs and the graph of the beads.  These share nothing, so TLC      *)
(* takes them one at a time: a behaviour is of one of the three.  Of the   *)
(* graph it is either of plans, which need all four ids, or of edits that  *)
(* begin with two beads and may create one more.                           *)
(***************************************************************************)
EXTENDS Memory, Specs, BeadGraph

MCSize == [a |-> 1, b |-> 2, c |-> 3, d |-> 1]
MCDocuments == {[table |-> FALSE, parts |-> <<<<"a", "b">>, <<"c", "a", "d">>>>],
                [table |-> TRUE, parts |-> <<"a", "b", "d">>]}
MCNotes == {<<"a", "b">>, <<"d">>}

(* The embedding reads two sentences, and hardly notices "d".              *)
MCDistances ==
    LET Read(text) == {text[i] : i \in DOMAIN text \cap 1..2}
        Differ(a, b) == (Read(a) \ Read(b)) \cup (Read(b) \ Read(a))
    IN  [a, b \in Known |-> 2 * Cardinality(Differ(a, b) \ {"d"}) + Cardinality(Differ(a, b) \cap {"d"})]
MCDistance(a, b) == MCDistances[a, b]

MCFolderOf == [s \in {"draft", "drafts", "done"} |-> IF s = "draft" THEN "drafts" ELSE s]

Task(title, under, after) == [title |-> title, under |-> under, after |-> after, valid |-> TRUE]
MCPlans == {<<Task("F", 0, {}), Task("A", 1, {"B", "EPIC"}), Task("B", 2, {})>>,
            <<Task("F", 0, {}), Task("A", 1, {"C"})>>}

(* One pair of agents gives all these commands, and either is like the     *)
(* other.                                                                  *)
MCSymmetry == Permutations(Operators)

VARIABLE part   \* what the behaviour is of

OneDraft == \E p \in InFolder(Draft) : specs[p] # NoFile
NoBeads == named = 0

Planners == {a \in Operators : act'[a].plan # <<>>}
InBounds == IF part = "edits" THEN named' <= 3 /\ Planners = {}
            ELSE named' > named => \E a \in Planners : act'[a].id = named'

MCInit ==
    /\ MemoryInit /\ SpecsInit /\ GraphInit
    /\ part \in {"memory", "specs", "plans", "edits"}
    /\ part # "specs" => OneDraft
    /\ part # "edits" <=> NoBeads

MCNext ==
    /\ \/ part = "memory" /\ MemoryNext /\ UNCHANGED <<specsVars, graphVars>>
       \/ part = "specs" /\ SpecsNext /\ UNCHANGED <<memoryVars, graphVars>>
       \/ part \in {"plans", "edits"} /\ GraphNext /\ InBounds /\ UNCHANGED <<memoryVars, specsVars>>
    /\ UNCHANGED part

MCSpec == MCInit /\ [][MCNext]_<<part, memoryVars, specsVars, graphVars>>
=============================================================================
