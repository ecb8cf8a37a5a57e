---------------------------- MODULE MCWorktrees ----------------------------
(***************************************************************************)
(* The worktree of a feature, under the beads of the feature and then      *)
(* under takt merge.  Merging waits for all its beads to be done, so TLC   *)
(* takes the two one at a time: a behaviour is of the one or of the other. *)
(* The feature's code change a clashes with m and breaks the tests         *)
(* together with n, and the test t that a followup adds does not pass on   *)
(* a; the bead files of the feature and of main (fs and ms) clash too.     *)
(***************************************************************************)
EXTENDS MergeGate, Agent

MCClash == {<<"a", "m">>, <<"fs", "ms">>}
MCBreaks == {<<"a", "n">>, <<"t", "a">>}

Merging == AgentInit /\ tree = {} /\ dirty = {} /\ serialize = TRUE /\ backend = "codex"
Working == Init /\ worktree = "clean" /\ open = 0

MCInit == (Init /\ Merging) \/ (Working /\ AgentInit)

(* Every bead is done, or has had its runs.                                *)
Rested == \A b \in Beads : at[b] = "done" \/ (at[b] = "idle" /\ runs[b] = MaxRuns)

MCNext ==
    \/ Merging /\ Next /\ UNCHANGED agentVars
    \/ Working /\ AgentNext /\ UNCHANGED vars
    \/ Rested /\ UNCHANGED <<vars, agentVars>>

MCSpec == MCInit /\ [][MCNext]_<<vars, agentVars>>
============================================================================
