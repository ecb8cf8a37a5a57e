------------------------------ MODULE MCFleet -------------------------------
(***************************************************************************)
(* The fleet commands, the watch command, and the assets of a project      *)
(* share no state, so TLC takes them one at a time: a behaviour is of one  *)
(* of the three.                                                           *)
(***************************************************************************)
EXTENDS Fleet, FleetWatch, MCUpgrade

NoEvents == WatchInit /\ \A p \in Projects : log[p] = <<>>
NewProject == UpgradeInit /\ release = 1 /\ \A f \in Files : disk[f] = Absent

MCInit == Init /\ WatchInit /\ UpgradeInit /\ (NoEvents \/ NewProject)

MCNext ==
    \/ NoEvents /\ NewProject /\ Next /\ UNCHANGED <<watchVars, upgradeVars>>
    \/ Init /\ NewProject /\ WatchNext /\ UNCHANGED <<vars, upgradeVars>>
    \/ Init /\ NoEvents /\ UpgradeNext /\ UNCHANGED <<vars, watchVars>>

MCSpec ==
    /\ MCInit /\ [][MCNext]_<<vars, watchVars, upgradeVars>>
    /\ WF_vars(Command) /\ WF_vars(Tail_run)
    /\ \A p \in Paths : WF_vars(StartJob(p)) /\ WF_vars(FinishJob(p))
=============================================================================
