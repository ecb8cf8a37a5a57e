----------------------------- MODULE FleetWatch -----------------------------
(***************************************************************************)
(* takt-fleet watch: a thread per project follows the event log that takt  *)
(* writes there, and puts lines into one queue, which the main thread      *)
(* prints.  A log is a sequence of pieces, as the writer hands them to the *)
(* system: an event in one piece, or in two if it is long; the last piece  *)
(* of an event ends in a newline.  A log only grows, so that a line is     *)
(* given by how many pieces there are before it and up to its end.         *)
(***************************************************************************)
EXTENDS Naturals, Sequences, SequencesExt

CONSTANTS
    Projects,    \* the registered projects
    MaxEvents    \* bound: on the events of all logs

ASSUME WatchAssumption == MaxEvents \in Nat

VARIABLES
    log,        \* of each project: .takt/logs/events.jsonl
    watched,    \* the projects of the watch command, {} if there is none
    at, pos,    \* of their threads: where they are, the pieces read
    pending,    \* of their threads: where the lines to be replayed end
    base, put,  \* history: the piece each began with, the pieces it put
    queue,      \* merged_queue
    shown,      \* what the main thread took from it; it prints the lines
    stop        \* stop_event

watchVars == <<log, watched, at, pos, pending, base, put, queue, shown, stop>>

Pieces == {"whole", "head", "rest"}
Ended(piece) == piece # "head"
Line(p, from, to) == [path |-> p, from |-> from, to |-> to]
Sentinel(p) == Line(p, 0, 0)    \* a thread's None
Items == [path : Projects, from : Nat, to : Nat]

Starts(l) == Len(SelectSeq(l, LAMBDA piece : piece # "rest"))
Events == FoldFunction(LAMBDA l, n : Starts(l) + n, 0, log)

WatchTypeOK ==
    /\ log \in [Projects -> Seq(Pieces)]
    /\ watched \subseteq Projects
    /\ at \in [Projects -> {"wait", "replay", "emit", "live", "gone"}]
    /\ pos \in [Projects -> Nat] /\ base \in [Projects -> Nat] /\ put \in [Projects -> Nat]
    /\ pending \in [Projects -> SUBSET Nat]
    /\ \A p \in Projects : base[p] <= put[p] /\ put[p] <= pos[p] /\ pos[p] <= Len(log[p])
    /\ queue \in Seq(Items) /\ shown \in Seq(Items)
    /\ stop \in BOOLEAN

WatchInit ==
    /\ log \in [Projects -> {<<>>, <<"whole">>}]
    /\ watched = {} /\ queue = <<>> /\ shown = <<>> /\ stop = FALSE
    /\ at = [p \in Projects |-> "gone"]
    /\ pos = [p \in Projects |-> 0] /\ base = [p \in Projects |-> 0] /\ put = [p \in Projects |-> 0]
    /\ pending = [p \in Projects |-> {}]

-----------------------------------------------------------------------------
(* record_event of a takt in the project.                                  *)
Torn(p) == log[p] # <<>> /\ ~Ended(Last(log[p]))

RecordEvent(p) ==
    /\ IF Torn(p) THEN log' = [log EXCEPT ![p] = Append(@, "rest")]
       ELSE /\ Events < MaxEvents
            /\ \E piece \in {"whole", "head"} : log' = [log EXCEPT ![p] = Append(@, piece)]
    /\ UNCHANGED <<watched, at, pos, pending, base, put, queue, shown, stop>>

(* command_watch: one thread for each project that passes the filters.     *)
StartWatch ==
    /\ watched = {}
    /\ watched' \in (SUBSET Projects) \ {{}}
    /\ at' = [p \in Projects |-> IF p \in watched' THEN "wait" ELSE "gone"]
    /\ UNCHANGED <<log, pos, pending, base, put, queue, shown, stop>>

(* The next line of a thread, as far as it is there, goes up to piece e.   *)
ReadsTo(p, e) ==
    /\ e \in pos[p] + 1..Len(log[p])
    /\ Ended(log[p][e]) \/ e = Len(log[p])
    /\ \A n \in pos[p] + 1..e - 1 : ~Ended(log[p][n])

(* _do_tail: the log exists; without --since go to its end.                *)
OpenLog(p) ==
    /\ at[p] = "wait" /\ ~stop /\ log[p] # <<>>
    /\ \/ at' = [at EXCEPT ![p] = "replay"] /\ UNCHANGED <<pos, base, put>>
       \/ /\ at' = [at EXCEPT ![p] = "live"]
          /\ pos' = [pos EXCEPT ![p] = Len(log[p])]
          /\ base' = [base EXCEPT ![p] = Len(log[p])] /\ put' = [put EXCEPT ![p] = Len(log[p])]
    /\ UNCHANGED <<log, watched, pending, queue, shown, stop>>

(* _replay_window: line by line to the end of the file, from the cutoff    *)
(* on.  Lines are in the order of their times; one that is not a whole     *)
(* event has none, and is kept.                                            *)
ReplayLine(p) ==
    /\ at[p] = "replay" /\ ~stop
    /\ \E e \in DOMAIN log[p] :
          /\ ReadsTo(p, e)
          /\ pos' = [pos EXCEPT ![p] = e]
          /\ \/ pending' = [pending EXCEPT ![p] = @ \cup {e}] /\ UNCHANGED <<base, put>>
             \/ /\ pending[p] = {} /\ Ended(log[p][e]) /\ log[p][pos[p] + 1] # "rest"
                /\ base' = [base EXCEPT ![p] = e] /\ put' = [put EXCEPT ![p] = e]
                /\ UNCHANGED pending
    /\ UNCHANGED <<log, watched, at, queue, shown, stop>>

ReplayEnd(p) ==
    /\ at[p] = "replay" /\ ~stop /\ pos[p] = Len(log[p])
    /\ at' = [at EXCEPT ![p] = "emit"]
    /\ UNCHANGED <<log, watched, pos, pending, base, put, queue, shown, stop>>

(* Then what is pending is put into the queue, and the thread goes on from *)
(* where it is in the file.                                                *)
EmitPending(p) ==
    /\ at[p] = "emit" /\ ~stop
    /\ \E e \in pending[p] :
          /\ \A x \in pending[p] : e <= x
          /\ queue' = Append(queue, Line(p, put[p], e))
          /\ pending' = [pending EXCEPT ![p] = @ \ {e}]
          /\ put' = [put EXCEPT ![p] = e]
    /\ UNCHANGED <<log, watched, at, pos, base, shown, stop>>

GoLive(p) ==
    /\ at[p] = "emit" /\ ~stop /\ pending[p] = {}
    /\ at' = [at EXCEPT ![p] = "live"]
    /\ UNCHANGED <<log, watched, pos, pending, base, put, queue, shown, stop>>

ReadWholeLines(p) ==    \* deviation: a line without a newline yet is dropped
    /\ at[p] = "live" /\ ~stop
    /\ \E e \in DOMAIN log[p] :
          /\ ReadsTo(p, e)
          /\ queue' = IF Ended(log[p][e]) THEN Append(queue, Line(p, pos[p], e)) ELSE queue
          /\ pos' = [pos EXCEPT ![p] = e] /\ put' = [put EXCEPT ![p] = e]
    /\ UNCHANGED <<log, watched, at, pending, base, shown, stop>>

(* readline returns what there is, a line that has no newline yet too.     *)
ReadLine(p) ==
    /\ at[p] = "live" /\ ~stop
    /\ \E e \in DOMAIN log[p] :
          /\ ReadsTo(p, e)
          /\ queue' = Append(queue, Line(p, pos[p], e))
          /\ pos' = [pos EXCEPT ![p] = e] /\ put' = [put EXCEPT ![p] = e]
    /\ UNCHANGED <<log, watched, at, pending, base, shown, stop>>

(* The thread ends when it is told to, or by an error; either way it says so. *)
EndTail(p) ==
    /\ at[p] # "gone" /\ p \in watched
    /\ stop \/ (at[p] = "wait" /\ log[p] # <<>>)
    /\ at' = [at EXCEPT ![p] = "gone"]
    /\ queue' = Append(queue, Sentinel(p))
    /\ UNCHANGED <<log, watched, pos, pending, base, put, shown, stop>>

Show ==
    /\ queue # <<>> /\ ~stop
    /\ queue' = Tail(queue)
    /\ shown' = Append(shown, Head(queue))
    /\ UNCHANGED <<log, watched, at, pos, pending, base, put, stop>>

(* Ctrl-C, or every thread has ended and been heard.                       *)
StopWatch ==
    /\ watched # {} /\ ~stop
    /\ stop' = TRUE
    /\ UNCHANGED <<log, watched, at, pos, pending, base, put, queue, shown>>

-----------------------------------------------------------------------------
Tailer(p) ==
    OpenLog(p) \/ ReplayLine(p) \/ ReplayEnd(p) \/ EmitPending(p) \/ GoLive(p) \/ ReadLine(p) \/ EndTail(p)

WatchNext ==
    \/ \E p \in Projects : RecordEvent(p) \/ Tailer(p)
    \/ StartWatch \/ Show \/ StopWatch

WatchSpec == WatchInit /\ [][WatchNext]_watchVars

(* Of each project, what was printed and what waits in the queue is the    *)
(* log from where its thread began to where it is, but for what it has     *)
(* still to replay: no piece lost, repeated or out of order, however the   *)
(* writer and the other threads interleave (tailer.py: _do_tail,           *)
(* _replay_window).                                                        *)
TailFaithful ==
    \A p \in Projects :
        LET out == shown \o queue
            own == {i \in DOMAIN out : out[i].path = p /\ out[i] # Sentinel(p)}
        IN  /\ \A n \in base[p] + 1..put[p] : \E i \in own : n \in out[i].from + 1..out[i].to
            /\ \A i \in own : base[p] <= out[i].from /\ out[i].from < out[i].to /\ out[i].to <= put[p]
            /\ \A i, j \in own : i < j => out[i].to <= out[j].from
            /\ at[p] = "live" => put[p] = pos[p]
=============================================================================
