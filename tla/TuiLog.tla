------------------------------- MODULE TuiLog -------------------------------
(***************************************************************************)
(* The scheduler log of the TUI: it begins at the end of events.jsonl,     *)
(* follows it at every refresh, and walks back through it on demand.  The  *)
(* file is a sequence of pieces: an event in one, or in two if it is long. *)
(***************************************************************************)
EXTENDS Naturals, Sequences, SequencesExt, FiniteSets

CONSTANTS
    Events,         \* 1 .. n, in the order in which they are recorded
    Quiet,          \* those that _format_event suppresses
    HistoryLines    \* how many lines H loads at most

ASSUME LogAssumption == Quiet \subseteq Events /\ Events \subseteq Nat /\ HistoryLines \in Nat \ {0}

VARIABLES
    log,                \* events.jsonl
    event_log_offset,   \* up to where it was followed
    history_offset,     \* down to where it was loaded
    scheduler_log,      \* the lines in memory
    widget              \* the lines on the screen

logVars == <<log, event_log_offset, history_offset, scheduler_log, widget>>

Piece == [event : Events, part : {"whole", "head", "rest"}]
LastEvent == IF log = <<>> THEN 0 ELSE Last(log).event
Torn == log # <<>> /\ Last(log).part = "head"

LogTypeOK ==
    /\ log \in Seq(Piece)
    /\ event_log_offset \in 0 .. Len(log) /\ history_offset \in 0 .. Len(log)
    /\ scheduler_log \in Seq(Events \ Quiet) /\ widget \in Seq(Events \ Quiet)

(* Some events are there before the TUI is, the last one maybe in part.    *)
LogInit ==
    /\ \E n \in Events \cup {0} :
          \E last \in {"whole", "head"} :
             log = [i \in 1 .. n |-> [event |-> i, part |-> IF i = n THEN last ELSE "whole"]]
    /\ event_log_offset = Len(log) /\ history_offset = Len(log)
    /\ scheduler_log = <<>> /\ widget = <<>>

(* The scheduler, in its process, appends to the file.                     *)
RecordEvent ==
    /\ IF Torn THEN log' = Append(log, [event |-> Last(log).event, part |-> "rest"])
       ELSE /\ LastEvent + 1 \in Events
            /\ \E part \in {"whole", "head"} : log' = Append(log, [event |-> LastEvent + 1, part |-> part])
    /\ UNCHANGED <<event_log_offset, history_offset, scheduler_log, widget>>

(* The positions in which a line starts that can be parsed and displayed:  *)
(* a fragment of an event is no JSON, and is skipped for good.             *)
Parsed(pieces) ==
    {i \in DOMAIN pieces :
        /\ pieces[i].event \notin Quiet
        /\ \/ pieces[i].part = "whole"
           \/ pieces[i].part = "head" /\ i + 1 \in DOMAIN pieces}

Lines(pieces, starts) == [i \in DOMAIN starts |-> pieces[starts[i]].event]

(* A set of numbers in their order: the i-th has i - 1 of them below it.   *)
InOrder(numbers) ==
    [i \in 1 .. Cardinality(numbers) |->
        CHOOSE n \in numbers : Cardinality({m \in numbers : m < n}) = i - 1]

(* _tail_event_log: what was appended since the last time.                 *)
TailEventLog ==
    LET new == SubSeq(log, event_log_offset + 1, Len(log))
    IN  /\ scheduler_log' = scheduler_log \o Lines(new, InOrder(Parsed(new)))
        /\ event_log_offset' = Len(log)
        /\ UNCHANGED <<log, history_offset>>

NewLines == SubSeq(scheduler_log', Len(scheduler_log) + 1, Len(scheduler_log'))

LoadHistoryAgain ==    \* deviation: the boundary stays where it was
    LET old == SubSeq(log, 1, history_offset)
        starts == InOrder(Parsed(old))
        found == IF Len(starts) <= HistoryLines THEN starts
                 ELSE SubSeq(starts, Len(starts) - HistoryLines + 1, Len(starts))
    IN  /\ scheduler_log' = Lines(old, found) \o scheduler_log
        /\ widget' = scheduler_log'
        /\ UNCHANGED <<log, event_log_offset, history_offset>>

(* H: the newest lines before the boundary, which moves to the earliest.   *)
LoadHistory ==
    LET old == SubSeq(log, 1, history_offset)
        starts == InOrder(Parsed(old))
        found == IF Len(starts) <= HistoryLines THEN starts
                 ELSE SubSeq(starts, Len(starts) - HistoryLines + 1, Len(starts))
    IN  /\ scheduler_log' = Lines(old, found) \o scheduler_log
        /\ history_offset' = IF found = <<>> THEN 0 ELSE found[1] - 1
        /\ widget' = scheduler_log'
        /\ UNCHANGED <<log, event_log_offset>>

-----------------------------------------------------------------------------
(* The lines in memory are in the order of the events, none twice, and     *)
(* between what was loaded of the past and what was followed no event that *)
(* was written in one piece is missing (state.py: _tail_event_log,         *)
(* load_event_log_history).                                                *)
LogFaithful ==
    /\ \A i \in 1 .. Len(scheduler_log) - 1 : scheduler_log[i] < scheduler_log[i + 1]
    /\ \A i \in history_offset + 1 .. event_log_offset :
          log[i].part = "whole" /\ log[i].event \notin Quiet => Contains(scheduler_log, log[i].event)

(* The panel shows the lines in memory (docs/development.md:42: "appends   *)
(* new scheduler log lines so events are never dropped").                  *)
WidgetShowsLog == widget = scheduler_log
=============================================================================
