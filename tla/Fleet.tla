------------------------------- MODULE Fleet -------------------------------
(***************************************************************************)
(* takt-fleet: the registry of projects, the commands run and dispatch,    *)
(* which fan out over a pool of threads and keep a run record on disk, and *)
(* runs show, which follows that record while it grows.  Every command is  *)
(* a process of its own, and they share nothing but files.                 *)
(***************************************************************************)
EXTENDS Naturals, FiniteSets, Sequences, SequencesExt

CONSTANTS
    Paths, Names,   \* of projects
    Registrars,     \* processes that run register or unregister
    Runs,           \* run ids: 1 .. n, in the order of the commands
    MaxParallel,    \* --max-parallel
    MaxRegisters,   \* bound: commands on the registry
    MaxInterrupts,  \* bound: Ctrl-C
    MaxKills        \* bound: kills

ASSUME FleetAssumption ==
    /\ IsFiniteSet(Paths) /\ IsFiniteSet(Runs) /\ Runs = 1 .. Cardinality(Runs)
    /\ MaxParallel \in Nat \ {0}
    /\ MaxRegisters \in Nat /\ MaxInterrupts \in Nat /\ MaxKills \in Nat

Project == [name : Names, path : Paths]

VARIABLES
    registry,   \* the registry file
    rpc, copy,  \* of each registrar: where it is, the list it loaded
    runlog,     \* the run records
    run,        \* the run of the fleet command at work, or of the last one
    pc,         \* where that command is
    targets,    \* the projects that pass its filters
    job,        \* of each of them: where its future is
    collected,  \* the results the command's main thread took, in that order
    interrupted,    \* Ctrl-C reached the pool
    viewed, vpc, printed,   \* runs show: the run, where it is, what it printed
    registers, interrupts, kills

registryVars == <<registry, rpc, copy, registers>>
commandVars == <<runlog, run, pc, targets, job, collected, interrupted>>
viewVars == <<viewed, vpc, printed>>
faults == <<interrupts, kills>>
vars == <<registryVars, commandVars, viewVars, faults>>

Futures == {"none", "queued", "running", "success", "error", "cancelled"}
Result == [path : Paths, status : {"success", "error"}]
Record == [command : {"run", "dispatch"}, projects : Seq(Result), finished : BOOLEAN, crashed : BOOLEAN]
NoRecord == [command |-> "none"]

TypeOK ==
    /\ registry \subseteq Project
    /\ rpc \in [Registrars -> {"idle", "save"}] /\ copy \in [Registrars -> SUBSET Project]
    /\ runlog \in [Runs -> Record \cup {NoRecord}]
    /\ run \in Runs \cup {0}
    /\ pc \in {"idle", "write", "pool", "save", "join", "leave", "finish"}
    /\ targets \subseteq Paths /\ job \in [Paths -> Futures]
    /\ collected \in Seq(Result) /\ interrupted \in BOOLEAN
    /\ viewed \in Runs \cup {0} /\ vpc \in {"idle", "tail", "done"} /\ printed \in Seq(Result)
    /\ registers \in Nat /\ interrupts \in Nat /\ kills \in Nat

Init ==
    /\ registry = {} /\ registers = 0
    /\ rpc = [c \in Registrars |-> "idle"] /\ copy = [c \in Registrars |-> {}]
    /\ runlog = [r \in Runs |-> NoRecord]
    /\ run = 0 /\ pc = "idle" /\ targets = {} /\ collected = <<>> /\ interrupted = FALSE
    /\ job = [p \in Paths |-> "none"]
    /\ viewed = 0 /\ vpc = "idle" /\ printed = <<>>
    /\ interrupts = 0 /\ kills = 0

-----------------------------------------------------------------------------
(* register and unregister: load the whole file, write the whole file.     *)

LoadRegistry(c) ==
    /\ rpc[c] = "idle" /\ registers < MaxRegisters
    /\ registers' = registers + 1
    /\ copy' = [copy EXCEPT ![c] = registry]
    /\ rpc' = [rpc EXCEPT ![c] = "save"]
    /\ UNCHANGED <<registry, commandVars, viewVars, faults>>

SaveRegistry(c, projects) ==
    /\ rpc[c] = "save"
    /\ registry' = projects
    /\ rpc' = [rpc EXCEPT ![c] = "idle"] /\ copy' = [copy EXCEPT ![c] = {}]
    /\ UNCHANGED <<registers, commandVars, viewVars, faults>>

RegisterByName(c) ==    \* deviation: the name is checked, and not the path
    \E p \in Project :
        /\ \A q \in copy[c] : q.name # p.name
        /\ SaveRegistry(c, copy[c] \cup {p})

(* Refused if the path is in the list; a name may be there twice.          *)
Register(c) ==
    \E p \in Project :
        /\ \A q \in copy[c] : q.path # p.path
        /\ SaveRegistry(c, copy[c] \cup {p})

(* Everything of that name, or at that path.                               *)
Unregister(c) ==
    \E i \in Names \cup Paths :
        LET kept == {p \in copy[c] : p.name # i /\ p.path # i}
        IN  kept # copy[c] /\ SaveRegistry(c, kept)

Refuse(c) == SaveRegistry(c, registry)

-----------------------------------------------------------------------------
(* run and dispatch.                                                       *)

Running == {p \in Paths : job[p] = "running"}
Queued == {p \in Paths : job[p] = "queued"}
Taken == {collected[i].path : i \in DOMAIN collected}
Done(p) == job[p] \in {"success", "error"}
Goto(step) == pc' = step

(* The registry is loaded and filtered: any part of it may remain.         *)
StartCommand ==
    /\ pc = "idle" /\ Running \cup Queued = {} /\ run + 1 \in Runs
    /\ run' = run + 1
    /\ targets' \in SUBSET {p.path : p \in registry}
    /\ collected' = <<>> /\ interrupted' = FALSE /\ Goto("write")
    /\ UNCHANGED <<runlog, job, registryVars, viewVars, faults>>

(* With no target the command returns, and its record stays unfinished.    *)
WriteRun ==
    /\ pc = "write"
    /\ \E command \in {"run", "dispatch"} :
          runlog' = [runlog EXCEPT ![run] = [command |-> command, projects |-> <<>>,
                                             finished |-> FALSE, crashed |-> FALSE]]
    /\ job' = [p \in Paths |-> IF p \in targets THEN "queued" ELSE "none"]
    /\ Goto(IF targets = {} THEN "idle" ELSE "pool")
    /\ UNCHANGED <<run, targets, collected, interrupted, registryVars, viewVars, faults>>

(* A thread of the pool takes a project and calls takt there; whatever     *)
(* that does, the result is a success or an error.                         *)
StartJob(p) ==
    /\ job[p] = "queued" /\ Cardinality(Running) < MaxParallel
    /\ job' = [job EXCEPT ![p] = "running"]
    /\ UNCHANGED <<runlog, run, pc, targets, collected, interrupted, registryVars, viewVars, faults>>

FinishJob(p) ==
    /\ job[p] = "running"
    /\ \E status \in {"success", "error"} : job' = [job EXCEPT ![p] = status]
    /\ UNCHANGED <<runlog, run, pc, targets, collected, interrupted, registryVars, viewVars, faults>>

(* as_completed: run writes its record for each result, dispatch keeps it. *)
Collect(p) ==
    /\ pc = "pool" /\ Done(p) /\ p \notin Taken
    /\ collected' = Append(collected, [path |-> p, status |-> job[p]])
    /\ Goto(IF runlog[run].command = "run" THEN "save" ELSE "pool")
    /\ UNCHANGED <<runlog, run, targets, job, interrupted, registryVars, viewVars, faults>>

SaveResult ==
    /\ pc = "save"
    /\ runlog' = [runlog EXCEPT ![run].projects = collected]
    /\ Goto("pool")
    /\ UNCHANGED <<run, targets, job, collected, interrupted, registryVars, viewVars, faults>>

AllSucceeded ==    \* deviation: a failed project is waited for again
    /\ pc = "pool" /\ {p \in Taken : job[p] = "success"} = targets
    /\ Goto("finish")
    /\ UNCHANGED <<runlog, run, targets, job, collected, interrupted, registryVars, viewVars, faults>>

AllCollected ==
    /\ pc = "pool" /\ Taken = targets
    /\ Goto("finish")
    /\ UNCHANGED <<runlog, run, targets, job, collected, interrupted, registryVars, viewVars, faults>>

(* Leaving the pool waits until the threads have done what is in it.       *)
Join ==
    /\ pc \in {"join", "leave"} /\ Running \cup Queued = {}
    /\ Goto(IF pc = "join" THEN "finish" ELSE "idle")
    /\ UNCHANGED <<runlog, run, targets, job, collected, interrupted, registryVars, viewVars, faults>>

(* run reports what it collected, dispatch one result for each project in  *)
(* their order; an interrupted dispatch has none, since fan_out raised.    *)
InOrder == [i \in 1 .. Cardinality(targets) |->
               [path |-> SetToSeq(targets)[i], status |-> job[SetToSeq(targets)[i]]]]
Report ==
    IF runlog[run].command = "run" THEN collected
    ELSE IF interrupted THEN <<>> ELSE InOrder

FinishRun ==
    /\ pc = "finish"
    /\ runlog' = [runlog EXCEPT ![run].projects = Report, ![run].finished = TRUE, ![run].crashed = interrupted]
    /\ Goto("idle")
    /\ UNCHANGED <<run, targets, job, collected, interrupted, registryVars, viewVars, faults>>

(* Ctrl-C while results come in cancels what is queued.  While the main    *)
(* thread still fills the pool, what it has put there is done, and nothing *)
(* else: then run ends, its record unfinished, and dispatch finishes its   *)
(* own.  Anywhere else Ctrl-C ends the command, except for the threads.    *)
Cancel(S) == job' = [p \in Paths |-> IF p \in S THEN "cancelled" ELSE job[p]]

InterruptWithoutJoin ==    \* deviation: nobody waits for the threads
    /\ interrupts < MaxInterrupts /\ pc \in {"pool", "save"}
    /\ interrupts' = interrupts + 1
    /\ Cancel(Queued) /\ interrupted' = TRUE /\ Goto("finish")
    /\ UNCHANGED <<runlog, run, targets, collected, registryVars, viewVars, kills>>

Interrupt ==
    /\ interrupts < MaxInterrupts /\ pc # "idle"
    /\ interrupts' = interrupts + 1
    /\ \/ pc \in {"pool", "save"} /\ Cancel(Queued) /\ interrupted' = TRUE /\ Goto("join")
       \/ /\ pc = "pool" /\ collected = <<>>
          /\ \E unsubmitted \in SUBSET Queued : Cancel(unsubmitted)
          /\ interrupted' = (runlog[run].command = "dispatch")
          /\ Goto(IF interrupted' THEN "join" ELSE "leave")
       \/ pc \notin {"pool", "save"} /\ Goto("idle") /\ UNCHANGED <<job, interrupted>>
    /\ UNCHANGED <<runlog, run, targets, collected, registryVars, viewVars, kills>>

Kill ==
    /\ kills < MaxKills /\ pc # "idle"
    /\ kills' = kills + 1
    /\ job' = [p \in Paths |-> "none"] /\ Goto("idle")
    /\ UNCHANGED <<runlog, run, targets, collected, interrupted, registryVars, viewVars, interrupts>>

-----------------------------------------------------------------------------
(* runs show, of a run that may be finished or not.                        *)

ShowRun(r) ==
    /\ vpc = "idle" /\ runlog[r] # NoRecord
    /\ viewed' = r
    /\ IF runlog[r].finished
       THEN printed' = runlog[r].projects /\ vpc' = "done"
       ELSE vpc' = "tail" /\ UNCHANGED printed
    /\ UNCHANGED <<registryVars, commandVars, faults>>

TailSkipping ==    \* deviation: the last results are not printed
    /\ vpc = "tail"
    /\ IF runlog[viewed].finished
       THEN vpc' = "done" /\ UNCHANGED printed
       ELSE printed' = runlog[viewed].projects /\ UNCHANGED vpc
    /\ UNCHANGED <<viewed, registryVars, commandVars, faults>>

(* tail_run: the results it has not seen, by their number.                 *)
Tail_run ==
    /\ vpc = "tail"
    /\ LET record == runlog[viewed] IN
          /\ printed' = printed \o SubSeq(record.projects, Len(printed) + 1, Len(record.projects))
          /\ vpc' = IF record.finished THEN "done" ELSE "tail"
    /\ UNCHANGED <<viewed, registryVars, commandVars, faults>>

-----------------------------------------------------------------------------
Command == WriteRun \/ (\E p \in Paths : Collect(p)) \/ SaveResult \/ AllCollected \/ Join \/ FinishRun
Pool == \E p \in Paths : StartJob(p) \/ FinishJob(p)
Registry == \E c \in Registrars : LoadRegistry(c) \/ Register(c) \/ Unregister(c) \/ Refuse(c)
Viewer == (\E r \in Runs : ShowRun(r)) \/ Tail_run

Next == Registry \/ StartCommand \/ Command \/ Pool \/ Interrupt \/ Kill \/ Viewer

Spec == Init /\ [][Next]_vars

(* The command goes on by itself, the threads take what is queued, and a   *)
(* takt run in a project comes to its end (RunEnds of the scheduler); the  *)
(* viewer polls.                                                           *)
FairSpec ==
    /\ Spec /\ WF_vars(Command) /\ WF_vars(Tail_run)
    /\ \A p \in Paths : WF_vars(StartJob(p)) /\ WF_vars(FinishJob(p))

-----------------------------------------------------------------------------
(* Two commands that rewrite the registry at the same time may lose each   *)
(* other's change, but no project ever gets two entries, which would make  *)
(* run start takt twice in one directory (registry.py, register.py).       *)
UniquePaths == \A p, q \in registry : p.path = q.path => p = q

(* What runs show prints, by counting, is what the record of the run says, *)
(* in its order, none left out or repeated, whether it comes while the run *)
(* goes on or later (runlog.py: tail_run, run.py, dispatch.py).            *)
ViewerFaithful ==
    vpc # "idle" =>
        /\ IsPrefix(printed, runlog[viewed].projects)
        /\ vpc = "done" => printed = runlog[viewed].projects

(* A finished record is final: the threads of the run are at rest, and if  *)
(* nobody interrupted it there is one result for each target (executor.py, *)
(* run.py).                                                                *)
FinishedMeansQuiet ==
    run # 0 /\ runlog[run] # NoRecord /\ runlog[run].finished =>
        LET results == runlog[run].projects IN
            /\ Running = {}
            /\ ~runlog[run].crashed => {results[i].path : i \in DOMAIN results} = targets
            /\ \A i, j \in DOMAIN results : results[i].path = results[j].path => i = j

(* A command that is in its pool gets its record finished: also if a       *)
(* project fails, and also after one Ctrl-C that comes while results come  *)
(* in.  A kill, a second Ctrl-C, or one before or after the results, may   *)
(* prevent it (run.py, dispatch.py).                                       *)
Finished(r) == runlog[r] # NoRecord /\ runlog[r].finished
Spared == kills = 0 /\ (interrupts = 0 \/ (interrupts = 1 /\ interrupted))
RecordFinishes == \A r \in Runs : (run = r /\ pc = "pool") ~> (Finished(r) \/ ~Spared)
=============================================================================
