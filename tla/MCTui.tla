------------------------------- MODULE MCTui --------------------------------
(***************************************************************************)
(* Instances of Tui for TLC: a parent with a child.                        *)
(***************************************************************************)
EXTENDS Tui

MCBeads == 1 .. 2
MCParent == <<0, 1>>
MCStatuses == {"ready", "blocked", "done", "absent"}
MCFilterModes == <<"default", "blocked">>
MCEvents == 1 .. 2
=============================================================================
