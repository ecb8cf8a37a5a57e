-------------------------------- MODULE Tui ---------------------------------
(***************************************************************************)
(* The terminal UI: a cache of the beads that is refreshed by a timer, a   *)
(* selection, a filter, and operator actions that wait for confirmation    *)
(* while the scheduler changes the beads under them.  confirm_merge is     *)
(* dead code (m maximizes, and nothing sets awaiting_merge_confirmation),  *)
(* so there is no pending merge.                                           *)
(***************************************************************************)
EXTENDS TuiLog

CONSTANTS
    Beads,          \* 1 .. n, in the order of their creation; with a feature root, those of its tree
    Parent,         \* Parent[b]: a bead, or 0
    Developers,     \* the beads of agent type developer
    FeatureRoot,    \* --feature-root, or 0
    Statuses,       \* bound: the statuses that occur, with "absent"
    FilterModes,    \* bound: the filters that the keys cycle through
    MaxChanges      \* bound: status changes by others

ASSUME TuiAssumption ==
    /\ IsFiniteSet(Beads) /\ Beads \subseteq Nat \ {0}
    /\ Parent \in [Beads -> Beads \cup {0}]
    /\ \A b \in Beads : Parent[b] < b
    /\ Developers \subseteq Beads /\ MaxChanges \in Nat
    /\ FeatureRoot # 0 => FeatureRoot \in Beads /\ \A b \in Beads \ {FeatureRoot} : Parent[b] # 0

VARIABLES
    status,             \* of the beads on disk
    rows,               \* _rows_cache
    selected_index, selected_bead_id,   \* 0 for none
    pending_retry,      \* the bead of awaiting_retry_confirmation, or 0
    flow,               \* status_flow_active: its bead and target
    filter_mode,
    changes

uiVars == <<rows, selected_index, selected_bead_id, pending_retry, flow, filter_mode>>
tuiVars == <<status, uiVars, changes, logVars>>

NoFlow == [bead |-> 0, target |-> "none"]
Row == [bead : Beads, status : Statuses \ {"absent"}]

TuiTypeOK ==
    /\ LogTypeOK
    /\ status \in [Beads -> Statuses]
    /\ rows \in Seq(Row)
    /\ selected_index \in Nat /\ selected_bead_id \in Beads \cup {0}
    /\ pending_retry \in Beads \cup {0}
    /\ flow = NoFlow \/ flow \in [bead : Beads, target : {"none", "ready", "blocked", "done"}]
    /\ filter_mode \in DOMAIN FilterModes /\ changes \in Nat

FILTER_STATUS_SETS == [
    default |-> {"open", "ready", "in_progress", "blocked", "handed_off"},
    all |-> {"open", "ready", "in_progress", "blocked", "handed_off", "done"},
    actionable |-> {"open", "ready"}, deferred |-> {"handed_off"}, done |-> {"done"},
    open |-> {"open"}, ready |-> {"ready"}, in_progress |-> {"in_progress"},
    blocked |-> {"blocked"}, handed_off |-> {"handed_off"}]

-----------------------------------------------------------------------------
(* load_beads and build_tree_rows: the beads that pass the filter, and the *)
(* feature root in any case, each one below its parent, or at the top if   *)
(* that is not among them.                                                 *)
Visible(mode, st) ==
    {b \in Beads : \/ st[b] \in FILTER_STATUS_SETS[FilterModes[mode]]
                   \/ (b = FeatureRoot /\ st[b] # "absent")}

Tree(visible) ==
    LET children[p \in Beads \cup {0}] ==
            {b \in visible : (IF Parent[b] \in visible THEN Parent[b] ELSE 0) = p}
        visit[p \in Beads \cup {0}] ==
            FlattenSeq([i \in 1 .. Cardinality(children[p]) |->
                LET b == InOrder(children[p])[i] IN <<b>> \o visit[b]])
    IN  visit[0]

BuildRows(mode, st) ==
    LET tree == Tree(Visible(mode, st))
    IN  [i \in 1 .. Cardinality(Visible(mode, st)) |-> [bead |-> tree[i], status |-> st[tree[i]]]]

IndexOf(rs, b) == SelectInSeq(rs, LAMBDA r : r.bead = b)
IsRow(rs, b, ok) == \E i \in DOMAIN rs : rs[i].bead = b /\ rs[i].status \in ok

ResolveSelectedIndex(rs) ==
    IF rs = <<>> THEN 0
    ELSE IF IndexOf(rs, selected_bead_id) # 0 THEN IndexOf(rs, selected_bead_id)
    ELSE IF selected_index = 0 THEN 1
    ELSE IF selected_index <= Len(rs) THEN selected_index ELSE Len(rs)

RefreshKeepingFlow(mode, retry, fl, st) ==    \* deviation: the flow stays when its bead leaves the rows
    /\ rows' = BuildRows(mode, st)
    /\ selected_index' = ResolveSelectedIndex(rows')
    /\ selected_bead_id' = IF rows' = <<>> THEN 0 ELSE rows'[selected_index'].bead
    /\ pending_retry' = IF IsRow(rows', retry, {"blocked"}) THEN retry ELSE 0
    /\ flow' = fl
    /\ TailEventLog

(* refresh, with what the handler that calls it left pending.  A bead file *)
(* that is being written cannot be parsed: then the cache stays.           *)
Refresh(mode, retry, fl, st) ==
    \/ /\ pending_retry' = 0 /\ flow' = NoFlow
       /\ UNCHANGED <<rows, selected_index, selected_bead_id>>
       /\ UNCHANGED <<log, event_log_offset, history_offset, scheduler_log>>
    \/ /\ rows' = BuildRows(mode, st)
       /\ selected_index' = ResolveSelectedIndex(rows')
       /\ selected_bead_id' = IF rows' = <<>> THEN 0 ELSE rows'[selected_index'].bead
       /\ pending_retry' = IF IsRow(rows', retry, {"blocked"}) THEN retry ELSE 0
       /\ flow' = IF IsRow(rows', fl.bead, Statuses) THEN fl ELSE NoFlow
       /\ TailEventLog

TuiInit ==
    /\ LogInit
    /\ status \in [Beads -> Statuses]
    /\ filter_mode = 1
    /\ rows = BuildRows(1, status)
    /\ selected_index = (IF rows = <<>> THEN 0 ELSE 1)
    /\ selected_bead_id = (IF rows = <<>> THEN 0 ELSE rows[1].bead)
    /\ pending_retry = 0 /\ flow = NoFlow /\ changes = 0

-----------------------------------------------------------------------------
(* The scheduler and other commands.                                       *)
StatusChange ==
    /\ changes < MaxChanges
    /\ changes' = changes + 1
    /\ \E b \in Beads, s \in Statuses : status' = [status EXCEPT ![b] = s]
    /\ UNCHANGED <<uiVars, logVars>>

(* _on_interval_tick writes what refresh found to the panel.               *)
Tick ==
    /\ Refresh(filter_mode, pending_retry, flow, status)
    /\ widget' = widget \o NewLines
    /\ UNCHANGED <<status, filter_mode, changes>>

ChooseTarget(target) ==
    /\ flow # NoFlow
    /\ flow' = [flow EXCEPT !.target = target]
    /\ UNCHANGED <<status, rows, selected_index, selected_bead_id, pending_retry, filter_mode, changes, logVars>>

ManualRefresh ==
    IF flow # NoFlow THEN ChooseTarget("ready")
    ELSE /\ Refresh(filter_mode, 0, NoFlow, status)
         /\ UNCHANGED <<status, widget, filter_mode, changes>>

CycleFilter(step) ==
    /\ filter_mode' = ((filter_mode - 1 + step) % Len(FilterModes)) + 1
    /\ Refresh(filter_mode', 0, NoFlow, status)
    /\ UNCHANGED <<status, widget, changes>>

SelectKeepingPending(i) ==    \* deviation: what is pending stays so
    /\ i \in DOMAIN rows /\ <<i, rows[i].bead>> # <<selected_index, selected_bead_id>>
    /\ selected_index' = i /\ selected_bead_id' = rows[i].bead
    /\ UNCHANGED <<status, rows, pending_retry, flow, filter_mode, changes, logVars>>

SelectIndex(i) ==
    /\ i \in DOMAIN rows /\ <<i, rows[i].bead>> # <<selected_index, selected_bead_id>>
    /\ selected_index' = i /\ selected_bead_id' = rows[i].bead
    /\ pending_retry' = 0 /\ flow' = NoFlow
    /\ UNCHANGED <<status, rows, filter_mode, changes, logVars>>

(* on_tree_node_highlighted: whatever moved the cursor of the tree.        *)
Highlight == \E i \in DOMAIN rows : SelectIndex(i)

LoadEventHistory == LoadHistory /\ UNCHANGED <<status, uiVars, changes>>

-----------------------------------------------------------------------------
(* t, u, y and c.                                                          *)
RequestRetry ==
    /\ flow' = NoFlow
    /\ pending_retry' = IF IsRow(rows, selected_bead_id, {"blocked"}) THEN selected_bead_id ELSE 0
    /\ UNCHANGED <<status, rows, selected_index, selected_bead_id, filter_mode, changes, logVars>>

OpenStatusFlow ==
    /\ pending_retry' = 0
    /\ flow' = IF selected_bead_id = 0 THEN flow ELSE [bead |-> selected_bead_id, target |-> "none"]
    /\ UNCHANGED <<status, rows, selected_index, selected_bead_id, filter_mode, changes, logVars>>

(* The row is looked at again, in the cache; command_retry reads the bead  *)
(* and puts it back to ready, except while a recovery bead is under way.   *)
ConfirmRetry ==
    /\ pending_retry # 0
    /\ IF ~IsRow(rows, pending_retry, {"blocked"})
       THEN pending_retry' = 0 /\ UNCHANGED <<status, rows, selected_index, selected_bead_id, flow, logVars>>
       ELSE /\ \/ UNCHANGED status
               \/ status[pending_retry] # "absent" /\ status' = [status EXCEPT ![pending_retry] = "ready"]
            /\ Refresh(filter_mode, 0, flow, status')
            /\ UNCHANGED widget
    /\ UNCHANGED <<filter_mode, changes>>

OPERATOR_STATUS_TRANSITIONS == [
    ready |-> {"open", "blocked", "handed_off"},
    blocked |-> {"open", "ready", "in_progress", "handed_off"},
    done |-> {"ready", "in_progress", "handed_off"}]

ConfirmStatusUpdate ==
    /\ pending_retry = 0 /\ flow.target # "none"
    /\ status' = IF /\ status[flow.bead] \in OPERATOR_STATUS_TRANSITIONS[flow.target]
                    /\ flow.target = "done" => flow.bead \notin Developers
                 THEN [status EXCEPT ![flow.bead] = flow.target] ELSE status
    /\ Refresh(filter_mode, pending_retry, NoFlow, status')
    /\ UNCHANGED <<widget, filter_mode, changes>>

CancelPendingAction ==
    /\ pending_retry' = 0
    /\ flow' = IF pending_retry = 0 THEN NoFlow ELSE flow
    /\ UNCHANGED <<status, rows, selected_index, selected_bead_id, filter_mode, changes, logVars>>

-----------------------------------------------------------------------------
Confirm == ConfirmRetry \/ ConfirmStatusUpdate

Keys ==
    \/ ManualRefresh \/ CycleFilter(1) \/ CycleFilter(Len(FilterModes) - 1)
    \/ Highlight \/ LoadEventHistory
    \/ RequestRetry \/ OpenStatusFlow \/ ChooseTarget("blocked") \/ ChooseTarget("done")
    \/ Confirm \/ CancelPendingAction

TuiNext ==
    \/ StatusChange \/ Tick \/ Keys
    \/ RecordEvent /\ UNCHANGED <<status, uiVars, changes>>

TuiSpec == TuiInit /\ [][TuiNext]_tuiVars

-----------------------------------------------------------------------------
(* What y would act on is the bead under the cursor, and never two things  *)
(* wait for it; a pending retry is of a bead that was blocked when last    *)
(* seen (actions.py, state.py: refresh, select_index).                     *)
ConfirmsSelected ==
    /\ pending_retry # 0 => pending_retry = selected_bead_id /\ IsRow(rows, pending_retry, {"blocked"})
    /\ flow # NoFlow => flow.bead = selected_bead_id
    /\ pending_retry = 0 \/ flow = NoFlow

(* The TUI itself changes no bead but the one under its cursor, and only   *)
(* by a confirmed action (services.py: apply_operator_status_update).      *)
WritesConfirmed ==
    [][status' # status /\ changes' = changes =>
         /\ pending_retry # 0 \/ flow # NoFlow
         /\ \A b \in Beads : status'[b] # status[b] => b = selected_bead_id]_tuiVars
=============================================================================
