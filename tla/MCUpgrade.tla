----------------------------- MODULE MCUpgrade ------------------------------
(***************************************************************************)
(* Instance of Upgrade for TLC: the second release removes a guardrail and *)
(* a skill and adds a template.                                            *)
(***************************************************************************)
EXTENDS Upgrade

MCShipped == <<{"guardrail", "config", "skill"}, {"config", "template"}>>
=============================================================================
