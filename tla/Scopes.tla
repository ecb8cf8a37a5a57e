------------------------------- MODULE Scopes -------------------------------
(***************************************************************************)
(* File-scope conflicts between beads: the operators of scheduler/core.py  *)
(* that decide whether a ready bead must wait for an active one.           *)
(*                                                                         *)
(* A scope record has the fields touched, expected (sets of files) and     *)
(* globs (a set of patterns).  The text of a path or of a pattern is       *)
(* abstracted to the two relations the code evaluates on it: fnmatch       *)
(* (FileMatches) and str.startswith of the literal prefixes (Extends).     *)
(***************************************************************************)
CONSTANTS
    Ids,          \* every bead id the instance knows
    Agent,        \* Agent[b]: the agent type of bead b
    Tree,         \* Tree[b]: the feature root of b; every bead of a tree shares one worktree
    Serialize,    \* scheduler.serialize_within_feature_tree
    FileMatches,  \* pairs <<file, glob>>: fnmatch(file, glob)
    Extends       \* pairs <<g, h>>: the literal prefix of g starts with that of h

ASSUME SerializeAssumption == Serialize \in BOOLEAN

MutatingAgents == {"developer", "tester", "documentation"}

Source(r) ==
    CASE r.touched # {}  -> "touched_files"
      [] r.touched = {} /\ r.expected # {} -> "expected_files"
      [] r.touched = {} /\ r.expected = {} /\ r.globs # {} -> "expected_globs"
      [] OTHER -> "none"

Entries(r) ==
    CASE Source(r) = "touched_files"  -> r.touched
      [] Source(r) = "expected_files" -> r.expected
      [] Source(r) = "expected_globs" -> r.globs
      [] OTHER -> {}

HasScope(r) == Source(r) # "none"

FilesMatchGlobs(files, globs) ==
    \E f \in files, g \in globs : <<f, g>> \in FileMatches

GlobsOverlap(first, second) ==
    \E g \in first, h \in second :
        g = h \/ <<g, h>> \in Extends \/ <<h, g>> \in Extends

FileSource(r) == Source(r) \in {"touched_files", "expected_files"}
GlobSource(r) == Source(r) = "expected_globs"

ScopesOverlap(first, second) ==
    \/ FileSource(first) /\ FileSource(second) /\ Entries(first) \cap Entries(second) # {}
    \/ GlobSource(first) /\ GlobSource(second) /\ GlobsOverlap(Entries(first), Entries(second))
    \/ GlobSource(first) /\ FileSource(second) /\ FilesMatchGlobs(Entries(second), Entries(first))
    \/ FileSource(first) /\ GlobSource(second) /\ FilesMatchGlobs(Entries(first), Entries(second))

Mutating(b) == Agent[b] \in MutatingAgents
SameTree(a, b) == Tree[a] = Tree[b]

(* Deviation: feature trees are never serialized.                          *)
BeadsConflictUnserialized(b, r, a, s) ==
    /\ SameTree(a, b) /\ Mutating(a) /\ Mutating(b)
    /\ ~HasScope(r) \/ ~HasScope(s) \/ ScopesOverlap(r, s)

(* Deviation: a bead without a scope conflicts with nothing.               *)
BeadsConflictScopedOnly(b, r, a, s) ==
    /\ SameTree(a, b) /\ Mutating(a) /\ Mutating(b)
    /\ Serialize \/ ScopesOverlap(r, s)

(* Deviation: entries are compared, but never matched.                     *)
BeadsConflictLiteral(b, r, a, s) ==
    /\ SameTree(a, b) /\ Mutating(a) /\ Mutating(b)
    /\ Serialize \/ ~HasScope(r) \/ ~HasScope(s) \/ Entries(r) \cap Entries(s) # {}

(* Bead b with scope r against the active bead a with scope s, test by     *)
(* test in the order of the code.                                          *)
BeadsConflict(b, r, a, s) ==
    IF /\ SameTree(a, b) /\ Mutating(a) /\ Mutating(b)
       /\ Serialize \/ ~HasScope(r) \/ ~HasScope(s)
    THEN TRUE
    ELSE IF ~Mutating(a) \/ ~Mutating(b) THEN FALSE
    ELSE IF ~HasScope(r) \/ ~HasScope(s)
         THEN Agent[a] = "developer" /\ Agent[b] = "developer" /\ SameTree(a, b)
    ELSE SameTree(a, b) /\ ScopesOverlap(r, s)

(* The active beads for which _find_conflict_reason gives a reason.        *)
(* active is a set of ids, scope the record known of each of them.         *)
Conflicting(b, r, active, scope) ==
    {a \in active \ {b} : BeadsConflict(b, r, a, scope[a])}

=============================================================================
