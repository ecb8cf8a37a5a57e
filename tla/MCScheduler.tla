---------------------------- MODULE MCScheduler ----------------------------
(***************************************************************************)
(* Instances of the scheduler for TLC.  A table gives every bead id its    *)
(* agent, parent, kind, rank among its siblings and feature tree; a cfg    *)
(* picks a table, the store to start from and the outcomes to explore.     *)
(***************************************************************************)
EXTENDS SchedulerProperties

CONSTANT Row    \* the table of the instance

MCIds == DOMAIN Row
MCAgent == [b \in MCIds |-> Row[b][1]]
MCParent == [b \in MCIds |-> Row[b][2]]
MCKind == [b \in MCIds |-> Row[b][3]]
MCRank == [b \in MCIds |-> Row[b][4]]
MCTree == [b \in MCIds |-> Row[b][5]]
MCCorrectiveIds == {b \in MCIds : Row[b][3] = "corrective"}
MCTouches == [b \in MCIds |-> {{"f"}}]
MCReports == [b \in MCIds |-> {NoReport}]

(* A standalone developer bead D, its recovery, its followups and the      *)
(* tester's correctives; I1 and I2 are unrelated investigations, whose     *)
(* completions wake the main thread at any point of D's pipeline.          *)
PipelineRow ==
    [D |-> <<"developer", "none", "task", 1, "D">>,
     Drec |-> <<"recovery", "D", "recovery", 1, "D">>,
     Dtest |-> <<"tester", "D", "test", 1, "D">>,
     Ddocs |-> <<"documentation", "D", "docs", 1, "D">>,
     Dreview |-> <<"review", "D", "review", 1, "D">>,
     Drec2 |-> <<"recovery", "D", "recovery", 2, "D">>,
     Trec |-> <<"recovery", "Dtest", "recovery", 1, "D">>,
     Trec2 |-> <<"recovery", "Dtest", "recovery", 2, "D">>,
     Tcorr |-> <<"developer", "Dtest", "corrective", 1, "D">>,
     Tcorr2 |-> <<"developer", "Dtest", "corrective", 2, "D">>,
     Tcorr3 |-> <<"developer", "Dtest", "corrective", 3, "D">>,
     Rcorr |-> <<"developer", "Drec", "corrective", 1, "D">>,
     Rcorr3 |-> <<"developer", "Drec", "corrective", 3, "D">>,
     Dcorr3 |-> <<"developer", "D", "corrective", 3, "D">>,
     Rcorr2 |-> <<"developer", "Drec", "corrective", 2, "D">>,
     Dsub |-> <<"documentation", "D", "subtask", 1, "D">>,
     Dsub2 |-> <<"documentation", "D", "subtask", 2, "D">>,
     Dcorr |-> <<"developer", "D", "corrective", 1, "D">>,
     Dcorr2 |-> <<"developer", "D", "corrective", 2, "D">>]
InvestigationRow ==
    [I1 |-> <<"investigator", "none", "task", 1, "I1">>,
     I2 |-> <<"investigator", "none", "task", 1, "I2">>]
Both(f, g) == [b \in DOMAIN f \cup DOMAIN g |-> IF b \in DOMAIN f THEN f[b] ELSE g[b]]
BusyPipelineRow == Both(PipelineRow, InvestigationRow)

Ready(expected) == NewBead({}, {}, expected, {})
PipelineInit == {[EmptyStore EXCEPT !["D"] = Ready({"f"})]}
BusyPipelineInit ==
    {[EmptyStore EXCEPT !["D"] = Ready({"f"}), !["I1"] = Ready({}), !["I2"] = Ready({})]}

SomeOutcomes == [b \in MCIds |->
    CASE b = "D" -> {"completed", "no_output", "failed_transient"}
      [] b = "Drec" -> {"completed", "blocked"}
      [] b = "Dtest" -> {"completed", "needs_changes"}
      [] b = "Tcorr" -> {"completed", "blocked"}
      [] OTHER -> {"completed"}]
VerdictOutcomes == [b \in MCIds |->
    CASE b = "Dtest" -> {"completed", "needs_changes"}
      [] b = "Tcorr" -> {"completed", "blocked", "blocked_transient"}
      [] OTHER -> {"completed"}]

(* A subtask may depend on D, or on its tester, which is not made yet.     *)
NoProposals == {}
SomeProposals == {[deps |-> {x}, expected |-> {"f"}, globs |-> {}] : x \in {"D", "Dtest"}}

(* The tester may also give a verdict the scheduler does not know.         *)
UnknownVerdicts == [b \in MCIds |->
    IF b = "Dtest" THEN VerdictOutcomes[b] \cup {"bad_verdict"} ELSE VerdictOutcomes[b]]

(* A tester and two documentation beads of one feature, none of which has  *)
(* followups, with one corrective each.                                    *)
SerializedRow ==
    [F |-> <<"planner", "none", "task", 1, "F">>,
     T |-> <<"tester", "F", "task", 1, "F">>,
     C |-> <<"documentation", "F", "task", 1, "F">>,
     I |-> <<"investigator", "F", "task", 1, "F">>,
     Tcorr |-> <<"developer", "T", "corrective", 1, "F">>,
     Ccorr |-> <<"developer", "C", "corrective", 1, "F">>,
     Fcorr |-> <<"developer", "F", "corrective", 1, "F">>]

(* A planned feature F: two developer beads, the tester, documentation and *)
(* review beads they share, and G, which documents something else.  The    *)
(* legacy followup ids stay unused unless a shared followup is missing.    *)
SharedRow ==
    [F |-> <<"planner", "none", "task", 1, "F">>,
     D1 |-> <<"developer", "F", "task", 1, "F">>,
     D2 |-> <<"developer", "F", "task", 1, "F">>,
     T |-> <<"tester", "F", "task", 1, "F">>,
     C |-> <<"documentation", "F", "task", 1, "F">>,
     R |-> <<"review", "F", "task", 1, "F">>,
     G |-> <<"documentation", "F", "task", 1, "F">>,
     D1test |-> <<"tester", "D1", "test", 1, "F">>,
     D1docs |-> <<"documentation", "D1", "docs", 1, "F">>,
     D1review |-> <<"review", "D1", "review", 1, "F">>,
     D2test |-> <<"tester", "D2", "test", 1, "F">>,
     D2docs |-> <<"documentation", "D2", "docs", 1, "F">>,
     D2review |-> <<"review", "D2", "review", 1, "F">>]
Planned(deps, expected) == NewBead(deps, {}, expected, {})
Feature == [EmptyStore EXCEPT !["F"] = [Planned({}, {}) EXCEPT !.status = "done"]]

SharedPlan(first) == [Feature EXCEPT
    !["D1"] = Planned({}, first), !["D2"] = Planned({}, {"f2"}),
    !["T"] = Planned({"D1", "D2"}, {}), !["C"] = Planned({"D1", "D2"}, {"doc"}),
    !["R"] = Planned({"D1", "D2", "T", "C"}, {})]
(* The same with other scopes for the two developer beads.                 *)
Scoped(f1, g1, f2, g2) == [SharedPlan({}) EXCEPT
    !["D1"] = NewBead({}, {}, f1, g1), !["D2"] = NewBead({}, {}, f2, g2)]
ScopedInit == {Scoped({"f1"}, {}, {}, {}), Scoped({"f1"}, {}, {}, {"src*"}),
               Scoped({}, {"src/a*"}, {}, {"src*"}), Scoped({"f2"}, {}, {}, {"src*"})}
(* G may run beside D1 alone: D2's pattern matches its file.               *)
GuideInit == {[Scoped({}, {"src/a*"}, {}, {"src*"}) EXCEPT !["G"] = Planned({}, {"f1"})],
              [Scoped({}, {"src/a*"}, {"f2"}, {}) EXCEPT !["G"] = Planned({}, {"f1"})]}
SharedInit == ScopedInit \cup GuideInit \cup {SharedPlan({"f1"}), SharedPlan({"f1", "f2"})}

(* A pattern that f1 matches, and two patterns of which one extends the    *)
(* other.                                                                  *)
SrcFiles == {<<"f1", "src*">>}
SrcPrefixes == {<<"src/a*", "src*">>}

SerializedInit == {[Feature EXCEPT
    !["T"] = Planned({}, {"f1"}), !["C"] = Planned({}, {"doc"}), !["I"] = Planned({}, {})]}

AllComplete == [b \in MCIds |-> {"completed"}]
SharedTouches == [b \in MCIds |->
    CASE b = "D1" -> {{"f1"}, {"f1", "f2"}}
      [] b = "D2" -> {{"f2"}}
      [] OTHER -> {{}}]
SharedReports == [b \in MCIds |->
    IF b = "D2" THEN {NoReport, [expected |-> {"f2"}, globs |-> {"src*"}]} ELSE {NoReport}]
============================================================================
