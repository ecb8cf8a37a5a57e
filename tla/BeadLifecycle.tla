--------------------------- MODULE BeadLifecycle ---------------------------
(***************************************************************************)
(* What the scheduler promises about beads, without saying how: a bead is  *)
(* made ready, is given to at most one worker, which alone moves it on     *)
(* while it holds it, and ends done or blocked; a blocked bead may be      *)
(* requeued or completed by its recovery; a done bead is never reopened.   *)
(***************************************************************************)
EXTENDS Naturals, FiniteSets

CONSTANTS Beads, Workers    \* the beads; how many may be held at once

VARIABLES status, held
lifecycle == <<status, held>>

Move(b, from, to) == status[b] \in from /\ status' = [status EXCEPT ![b] = to]

Create(b) == b \notin held /\ Move(b, {"absent"}, "ready") /\ UNCHANGED held

Hold ==
    /\ held # held' /\ held \subseteq held'
    /\ \A b \in held' \ held : b \in Beads /\ status[b] = "ready"
    /\ Cardinality(held') <= Workers
    /\ UNCHANGED status

Work(b) ==
    /\ b \in held
    /\ \/ Move(b, {"ready"}, "in_progress")
       \/ Move(b, {"ready", "in_progress"}, "blocked")
       \/ Move(b, {"in_progress"}, "done")
    /\ UNCHANGED held

LetGo == held # held' /\ held' \subseteq held /\ UNCHANGED status

Resume(b) ==
    /\ b \notin held
    /\ Move(b, {"blocked"}, "ready") \/ Move(b, {"blocked"}, "done")
    /\ UNCHANGED held

(* When no worker is left, beads it left in progress return to the queue.  *)
Lapse ==
    /\ held = {} /\ UNCHANGED held
    /\ DOMAIN status' = Beads
    /\ \A b \in Beads : \/ status'[b] = status[b]
                        \/ status[b] = "in_progress" /\ status'[b] = "ready"

LInit == held = {} /\ status \in [Beads -> {"absent", "ready", "in_progress", "blocked", "done"}]

LNext ==
    \/ \E b \in Beads : Create(b) \/ Work(b) \/ Resume(b)
    \/ Hold \/ LetGo \/ Lapse

LSpec == LInit /\ [][LNext]_lifecycle
=============================================================================
