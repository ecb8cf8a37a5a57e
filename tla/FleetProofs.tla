----------------------------- MODULE FleetProofs ------------------------------
(***************************************************************************)
(* What the fleet commands keep in their files, for any number of          *)
(* projects, commands and threads, whatever is interrupted or killed; that *)
(* watch prints the logs; and what takt upgrade keeps in one project's     *)
(* files, for any releases and files.                                      *)
(***************************************************************************)
EXTENDS Fleet, FleetWatch, Upgrade, FiniteSetTheorems, SequenceTheorems, TLAPS

-----------------------------------------------------------------------------
(* The registry: the list that a command loaded has one entry a path, and  *)
(* so has the list it saves.                                               *)
OncePerPath(S) == \A p, q \in S : p.path = q.path => p = q
Copies == \A c \in Registrars : OncePerPath(copy[c])

RegistryTypes == registry \subseteq Project /\ copy \in [Registrars -> SUBSET Project]

LEMMA OtherThanRegistry ==
    StartCommand \/ Command \/ Pool \/ Interrupt \/ Kill \/ Viewer => UNCHANGED registryVars
BY DEF StartCommand, Command, WriteRun, Collect, SaveResult, AllCollected, Join, FinishRun, Pool,
       StartJob, FinishJob, Interrupt, Kill, Viewer, ShowRun, Tail_run

LEMMA SavedOnce ==
    ASSUME NEW c \in Registrars, NEW S \in SUBSET Project, RegistryTypes, Copies, OncePerPath(S),
           SaveRegistry(c, S)
    PROVE  RegistryTypes' /\ UniquePaths' /\ Copies'
BY DEF SaveRegistry, RegistryTypes, Copies, OncePerPath, UniquePaths

LEMMA RegistryWellFormed == Spec => [](RegistryTypes /\ UniquePaths)
<1> DEFINE RInv == RegistryTypes /\ UniquePaths /\ Copies
<1>1. Init => RInv
  BY DEF Init, RegistryTypes, UniquePaths, Copies, OncePerPath
<1>2. RInv /\ [Next]_vars => RInv'
  <2> SUFFICES ASSUME RInv, [Next]_vars PROVE RInv'
    OBVIOUS
  <2>1. CASE UNCHANGED registryVars
    BY <2>1 DEF registryVars, RegistryTypes, UniquePaths, Copies
  <2>2. ASSUME NEW c \in Registrars, LoadRegistry(c) PROVE RInv'
    BY <2>2 DEF LoadRegistry, RegistryTypes, UniquePaths, Copies, OncePerPath
  <2>3. ASSUME NEW c \in Registrars, Register(c) PROVE RInv'
    <3>1. PICK p \in Project : /\ \A q \in copy[c] : q.path # p.path
                              /\ SaveRegistry(c, copy[c] \cup {p})
      BY <2>3 DEF Register
    <3>2. copy[c] \cup {p} \in SUBSET Project /\ OncePerPath(copy[c] \cup {p})
      BY <3>1 DEF RegistryTypes, Copies, OncePerPath
    <3> QED
      BY <3>1, <3>2, SavedOnce
  <2>4. ASSUME NEW c \in Registrars, Unregister(c) PROVE RInv'
    <3>1. PICK i \in Names \cup Paths :
              SaveRegistry(c, {p \in copy[c] : p.name # i /\ p.path # i})
      BY <2>4 DEF Unregister
    <3> DEFINE S == {p \in copy[c] : p.name # i /\ p.path # i}
    <3>2. S \in SUBSET Project /\ OncePerPath(S)
      BY DEF RegistryTypes, Copies, OncePerPath
    <3>3. SaveRegistry(c, S)
      BY <3>1
    <3> HIDE DEF S
    <3> QED
      BY <3>2, <3>3, SavedOnce
  <2>5. ASSUME NEW c \in Registrars, Refuse(c) PROVE RInv'
    <3>1. registry \in SUBSET Project /\ OncePerPath(registry)
      BY DEF RegistryTypes, UniquePaths, OncePerPath
    <3> QED
      BY <2>5, <3>1, SavedOnce DEF Refuse
  <2> QED
    BY <2>1, <2>2, <2>3, <2>4, <2>5, OtherThanRegistry DEF Next, Registry, vars
<1>3. RInv => RegistryTypes /\ UniquePaths
  OBVIOUS
<1> QED
  BY <1>1, <1>2, <1>3, PTL DEF Spec

(* No project is registered twice, however many commands rewrite the file  *)
(* at the same time (registry.py, register.py).                            *)
THEOREM RegisteredOnce == Spec => []UniquePaths
BY RegistryWellFormed, PTL

-----------------------------------------------------------------------------
(* The run records.                                                        *)
AtWork == pc \in {"pool", "save", "join", "leave", "finish"}

LogTypes ==
    /\ runlog \in [Runs -> Record \cup {NoRecord}]
    /\ run \in Nat /\ (run = 0 => pc = "idle") /\ (run # 0 => run \in Runs)
    /\ pc \in {"idle", "write", "pool", "save", "join", "leave", "finish"}
    /\ targets \subseteq Paths /\ job \in [Paths -> Futures]
    /\ collected \in Seq(Result) /\ interrupted \in BOOLEAN

(* The records of runs to come are not there, and the one of the run at    *)
(* work is not finished.                                                   *)
Unwritten ==
    \A r \in Runs : r > run \/ (r = run /\ pc = "write") => runlog[r] = NoRecord
Unfinished == AtWork => runlog[run] # NoRecord /\ ~runlog[run].finished

(* The pool has what is a target, and the main thread collects once what   *)
(* is done.                                                                *)
Threads ==
    /\ Queued # {} => /\ pc \notin {"write", "finish"}
                      /\ run # 0 /\ runlog[run] # NoRecord /\ ~runlog[run].finished
    /\ AtWork => \A p \in Paths : job[p] # "none" => p \in targets
    /\ pc = "join" => interrupted
    /\ pc = "finish" => Running = {} /\ (interrupted \/ Taken = targets)
Collected ==
    /\ pc = "write" => collected = <<>>
    /\ AtWork => \A i \in DOMAIN collected :
          /\ collected[i].path \in targets /\ job[collected[i].path] = collected[i].status
          /\ \A j \in DOMAIN collected : collected[i].path = collected[j].path => i = j

LogInv == LogTypes /\ Unwritten /\ Unfinished /\ Threads /\ Collected /\ FinishedMeansQuiet

LEMMA RunIds == \A r \in Runs : r \in Nat /\ r # 0
BY FleetAssumption, FS_CardinalityType

LEMMA LogInvInit == Init => LogInv
<1> SUFFICES ASSUME Init PROVE LogInv
  OBVIOUS
<1> USE DEF Init
<1>1. LogTypes
  <2>1. runlog \in [Runs -> Record \cup {NoRecord}] /\ job \in [Paths -> Futures]
    BY DEF Futures
  <2>2. collected \in Seq(Result)
    OBVIOUS
  <2>4. interrupted \in BOOLEAN /\ targets \subseteq Paths
    OBVIOUS
  <2>3. run = 0 /\ pc = "idle"
    OBVIOUS
  <2> QED
    BY <2>1, <2>2, <2>3, <2>4 DEF LogTypes
<1>2. Unwritten /\ Unfinished /\ FinishedMeansQuiet
  BY RunIds DEF Unwritten, Unfinished, FinishedMeansQuiet, AtWork
<1>3. Threads /\ Collected
  BY DEF Threads, Collected, AtWork, Queued
<1> QED
  BY <1>1, <1>2, <1>3 DEF LogInv

(* A finished record stays what it is as long as nothing touches it, the   *)
(* targets and the threads.                                                *)
LEMMA OthersKeepLog ==
    LogInv /\ (Registry \/ Viewer \/ UNCHANGED vars) => LogInv'
<1> SUFFICES ASSUME LogInv, Registry \/ Viewer \/ UNCHANGED vars PROVE LogInv'
  OBVIOUS
<1> USE DEF LogInv, LogTypes, Unwritten, Unfinished, Threads, Collected, FinishedMeansQuiet,
            AtWork, Queued, Running, Taken
<1>1. UNCHANGED commandVars
  BY DEF Registry, Viewer, LoadRegistry, Register, Unregister, Refuse, SaveRegistry, ShowRun, Tail_run,
         vars
<1> QED
  BY <1>1 DEF commandVars

LEMMA StartCommandLog == LogInv /\ RegistryTypes /\ StartCommand => LogInv'
<1> SUFFICES ASSUME LogInv, RegistryTypes, StartCommand PROVE LogInv'
  OBVIOUS
<1> USE DEF StartCommand, Goto
<1>1. targets' \subseteq Paths
  BY DEF RegistryTypes, Project
<1>2. LogTypes'
  <2>1. collected' \in Seq(Result)
    OBVIOUS
  <2>2. interrupted' \in BOOLEAN /\ UNCHANGED <<runlog, job>> /\ pc' = "write"
    OBVIOUS
  <2>3. run' \in Nat /\ run' \in Runs /\ run' # 0
    BY RunIds DEF LogInv, LogTypes
  <2> QED
    BY <1>1, <2>1, <2>2, <2>3 DEF LogInv, LogTypes
<1>3. Unwritten' /\ Unfinished' /\ FinishedMeansQuiet'
  <2>1. run' = run + 1 /\ run' \in Runs /\ pc' = "write" /\ runlog' = runlog /\ run \in Nat
    BY DEF LogInv, LogTypes
  <2>2. \A r \in Runs : r >= run' => runlog'[r] = NoRecord
    <3>1. \A m, n \in Nat : m >= n + 1 => m > n
      OBVIOUS
    <3>2. \A r \in Runs : r >= run + 1 => r > run
      BY <2>1, <3>1, RunIds
    <3> QED
      BY <2>1, <3>2 DEF LogInv, Unwritten
  <2>3. Unwritten'
    <3>1. \A r \in Runs : r > run' \/ r = run' => r >= run'
      BY <2>1, RunIds
    <3>2. \A r \in Runs : r > run' \/ r = run' => runlog'[r] = NoRecord
      BY <2>2, <3>1
    <3> HIDE DEF StartCommand, Goto
    <3> QED
      BY <3>2 DEF Unwritten
  <2> HIDE DEF StartCommand, Goto
  <2>4. Unfinished'
    BY <2>1 DEF Unfinished, AtWork
  <2>5. FinishedMeansQuiet'
    BY <2>1, <2>2, RunIds DEF FinishedMeansQuiet
  <2> QED
    BY <2>3, <2>4, <2>5
<1>4. Threads' /\ Collected'
  BY DEF LogInv, LogTypes, Threads, Collected, AtWork, Queued
<1> QED
  BY <1>2, <1>3, <1>4 DEF LogInv

LEMMA WriteRunLog == LogInv /\ WriteRun => LogInv'
<1> SUFFICES ASSUME LogInv, WriteRun PROVE LogInv'
  OBVIOUS
<1> USE DEF WriteRun, Goto
<1>1. run \in Runs /\ run # 0
  BY RunIds DEF LogInv, LogTypes
<1>2. PICK command \in {"run", "dispatch"} :
          runlog' = [runlog EXCEPT ![run] = [command |-> command, projects |-> <<>>,
                                             finished |-> FALSE, crashed |-> FALSE]]
  OBVIOUS
<1> DEFINE entry == [command |-> command, projects |-> <<>>, finished |-> FALSE, crashed |-> FALSE]
<1>3. entry \in Record /\ entry # NoRecord /\ ~entry.finished
  BY DEF Record, NoRecord
<1>4. runlog' = [runlog EXCEPT ![run] = entry]
  BY <1>2
<1> HIDE DEF entry
<1>5. LogTypes'
  BY <1>1, <1>3, <1>4 DEF LogInv, LogTypes, Futures
<1>6. Unwritten' /\ Unfinished' /\ FinishedMeansQuiet'
  <2>1. run' = run /\ pc' # "write" /\ runlog'[run] = entry /\ run \in Nat
    BY <1>1, <1>4 DEF LogInv, LogTypes
  <2>2. \A r \in Runs : r > run => runlog'[r] = NoRecord
    BY <1>1, <1>4, RunIds DEF LogInv, LogTypes, Unwritten
  <2> QED
    BY <2>1, <2>2, <1>3, RunIds DEF Unwritten, Unfinished, FinishedMeansQuiet
<1>7. Threads' /\ Collected'
  <2>1. run' = run /\ runlog'[run] = entry /\ pc' \in {"idle", "pool"} /\ collected' = <<>>
    BY <1>1, <1>4 DEF LogInv, LogTypes, Collected
  <2>2. job' = [p \in Paths |-> IF p \in targets THEN "queued" ELSE "none"] /\ targets' = targets
    OBVIOUS
  <2>3. Threads'
    BY <1>1, <1>3, <2>1, <2>2 DEF Threads, AtWork, Queued
  <2>4. Collected'
    BY <2>1 DEF Collected, AtWork
  <2> QED
    BY <2>3, <2>4
<1> QED
  BY <1>5, <1>6, <1>7 DEF LogInv

(* The threads: those of a finished record are at rest.                    *)
LEMMA JobsLog == ASSUME NEW p \in Paths, LogInv, StartJob(p) \/ FinishJob(p) PROVE LogInv'
<1>1. job[p] # "none" /\ (job[p] = "queued" \/ job[p] = "running")
  BY DEF StartJob, FinishJob
<1>2. PICK f \in {"running", "success", "error"} :
          job' = [job EXCEPT ![p] = f] /\ (f = "running" => job[p] = "queued")
  BY DEF StartJob, FinishJob
<1>3. UNCHANGED <<runlog, run, pc, targets, collected, interrupted>>
  BY DEF StartJob, FinishJob
<1>4. LogTypes' /\ Unwritten' /\ Unfinished'
  BY <1>2, <1>3 DEF LogInv, LogTypes, Unwritten, Unfinished, AtWork, Futures
<1>5. pc # "finish"
  BY <1>1 DEF LogInv, Threads, Queued, Running
<1>6. Threads'
  BY <1>1, <1>2, <1>3, <1>5 DEF LogInv, LogTypes, Threads, Queued, AtWork
<1>7. Collected'
  <2> SUFFICES ASSUME AtWork, NEW i \in DOMAIN collected
               PROVE  job'[collected[i].path] = collected[i].status
    BY <1>3 DEF LogInv, Collected, AtWork
  <2>1. collected[i] \in Result /\ job[collected[i].path] = collected[i].status
    BY DEF LogInv, LogTypes, Collected
  <2> QED
    BY <2>1, <1>1, <1>2 DEF Result, LogInv, LogTypes
<1>8. FinishedMeansQuiet'
  <2> SUFFICES ASSUME run # 0, runlog[run] # NoRecord, runlog[run].finished PROVE FALSE
    BY <1>3 DEF FinishedMeansQuiet
  <2>1. Running = {} /\ Queued = {}
    BY DEF LogInv, FinishedMeansQuiet, Threads
  <2> QED
    BY <1>1, <2>1 DEF Queued, Running
<1> QED
  BY <1>4, <1>6, <1>7, <1>8 DEF LogInv

LEMMA CollectLog == ASSUME NEW p \in Paths, LogInv, Collect(p) PROVE LogInv'
<1> DEFINE r == [path |-> p, status |-> job[p]]
<1>1. /\ pc = "pool" /\ pc' \in {"pool", "save"} /\ Done(p) /\ p \notin Taken
      /\ collected' = Append(collected, r)
      /\ UNCHANGED <<runlog, run, targets, job, interrupted>>
  BY DEF Collect, Goto
<1>2. r \in Result /\ r.path = p /\ r.status = job[p] /\ job[p] # "none" /\ p \in targets
  BY <1>1 DEF Result, Done, LogInv, Threads, AtWork
<1> HIDE DEF r
<1>3. collected \in Seq(Result)
  BY DEF LogInv, LogTypes
<1>4. /\ collected' \in Seq(Result)
      /\ DOMAIN collected' = DOMAIN collected \cup {Len(collected) + 1}
      /\ collected'[Len(collected) + 1] = r
      /\ \A i \in DOMAIN collected : collected'[i] = collected[i]
  BY <1>1, <1>2, <1>3
<1>5. LogTypes' /\ Unwritten' /\ Unfinished'
  BY <1>1, <1>4 DEF LogInv, LogTypes, Unwritten, Unfinished, AtWork
<1>6. Threads'
  BY <1>1 DEF LogInv, Threads, Queued, AtWork, Running
<1>7. Collected'
  BY <1>1, <1>2, <1>4 DEF LogInv, Collected, AtWork, Taken
<1>8. FinishedMeansQuiet'
  BY <1>1 DEF LogInv, Unfinished, FinishedMeansQuiet, AtWork
<1> QED
  BY <1>5, <1>6, <1>7, <1>8 DEF LogInv

LEMMA SaveResultLog == LogInv /\ SaveResult => LogInv'
<1> SUFFICES ASSUME LogInv, SaveResult PROVE LogInv'
  OBVIOUS
<1>1. /\ pc = "save" /\ pc' = "pool" /\ runlog' = [runlog EXCEPT ![run].projects = collected]
      /\ UNCHANGED <<run, targets, job, collected, interrupted>>
  BY DEF SaveResult, Goto
<1>2. run \in Runs /\ run # 0 /\ runlog[run] \in Record /\ ~runlog[run].finished
  BY <1>1 DEF LogInv, LogTypes, Unfinished, AtWork
<1> DEFINE entry == [runlog[run] EXCEPT !.projects = collected]
<1>3. entry \in Record /\ entry # NoRecord /\ ~entry.finished
  BY <1>2 DEF Record, NoRecord, LogInv, LogTypes
<1>4. runlog' = [runlog EXCEPT ![run] = entry]
  BY <1>1
<1> HIDE DEF entry
<1>5. LogTypes'
  BY <1>1, <1>2, <1>3, <1>4 DEF LogInv, LogTypes
<1>6. Unwritten' /\ Unfinished' /\ FinishedMeansQuiet'
  BY <1>1, <1>2, <1>3, <1>4, RunIds DEF LogInv, LogTypes, Unwritten, Unfinished, FinishedMeansQuiet, AtWork
<1>7. Threads' /\ Collected'
  BY <1>1, <1>2, <1>3, <1>4 DEF LogInv, LogTypes, Threads, Collected, AtWork, Queued, Running
<1> QED
  BY <1>5, <1>6, <1>7 DEF LogInv

(* The pool is left when everything was collected, or when the threads of  *)
(* an interrupted command came to rest.                                    *)
LEMMA LeavePoolLog == LogInv /\ (AllCollected \/ Join) => LogInv'
<1> SUFFICES ASSUME LogInv, AllCollected \/ Join PROVE LogInv'
  OBVIOUS
<1>1. /\ AtWork /\ UNCHANGED <<runlog, run, targets, job, collected, interrupted>>
      /\ \/ pc = "pool" /\ Taken = targets /\ pc' = "finish"
         \/ pc = "join" /\ Running \cup Queued = {} /\ pc' = "finish"
         \/ pc = "leave" /\ Running \cup Queued = {} /\ pc' = "idle"
  BY DEF AllCollected, Join, Goto, AtWork
<1>2. Taken = targets => Running = {} /\ Queued = {}
  <2> SUFFICES ASSUME Taken = targets, NEW p \in Paths, job[p] \in {"running", "queued"} PROVE FALSE
    BY DEF Running, Queued
  <2>1. PICK i \in DOMAIN collected : collected[i].path = p
    BY <1>1 DEF LogInv, Threads, Taken
  <2>2. collected[i] \in Result /\ job[p] = collected[i].status
    BY <1>1, <2>1 DEF LogInv, LogTypes, Collected
  <2> QED
    BY <2>2 DEF Result
<1>3. LogTypes' /\ Unwritten' /\ Unfinished' /\ Collected'
  BY <1>1 DEF LogInv, LogTypes, Unwritten, Unfinished, Collected, AtWork
<1>4. Threads'
  BY <1>1, <1>2 DEF LogInv, Threads, AtWork, Queued, Running, Taken
<1>5. FinishedMeansQuiet'
  BY <1>1 DEF LogInv, Unfinished, FinishedMeansQuiet
<1> QED
  BY <1>3, <1>4, <1>5 DEF LogInv

(* dispatch goes through the projects in their order, each of them once.   *)
LEMMA Enumeration ==
    ASSUME NEW S, IsFiniteSet(S)
    PROVE  /\ Cardinality(S) \in Nat
           /\ SetToSeq(S) \in [1..Cardinality(S) -> S]
           /\ \A i, j \in 1..Cardinality(S) : SetToSeq(S)[i] = SetToSeq(S)[j] => i = j
           /\ \A x \in S : \E i \in 1..Cardinality(S) : SetToSeq(S)[i] = x
<1> DEFINE n == Cardinality(S)
<1>1. n \in Nat
  BY FS_CardinalityType
<1>2. PICK m \in Nat : ExistsBijection(1..m, S)
  BY FS_NatBijection
<1>3. m = n
  BY <1>2, FS_CountingElements
<1>4. \E f \in [1..n -> S] : IsInjective(f)
  BY <1>2, <1>3 DEF ExistsBijection, Bijection, Injection
<1> HIDE DEF n
<1>5. SetToSeq(S) \in [1..n -> S] /\ IsInjective(SetToSeq(S))
  BY <1>4 DEF SetToSeq, n
<1>6. SetToSeq(S) \in Injection(1..n, S)
  BY <1>5 DEF Injection
<1>7. Cardinality(1..n) = n
  BY <1>1, FS_Interval
<1>8. SetToSeq(S) \in Surjection(1..n, S)
  BY <1>6, <1>7, FS_Injection DEF n
<1> QED
  BY <1>1, <1>5, <1>8 DEF n, IsInjective, Surjection

LEMMA ReportComplete ==
    ASSUME LogInv, pc = "finish"
    PROVE  /\ Report \in Seq(Result)
           /\ ~interrupted => {Report[i].path : i \in DOMAIN Report} = targets
           /\ \A i, j \in DOMAIN Report : Report[i].path = Report[j].path => i = j
<1>1. collected \in Seq(Result)
  BY DEF LogInv, LogTypes
<1>2. CASE runlog[run].command = "run"
  <2>1. Report = collected
    BY <1>2 DEF Report
  <2> QED
    BY <1>1, <2>1 DEF LogInv, Threads, Collected, AtWork, Taken
<1>3. CASE runlog[run].command # "run" /\ interrupted
  <2>1. Report = <<>>
    BY <1>3 DEF Report
  <2> QED
    BY <1>3, <2>1
<1>4. CASE runlog[run].command # "run" /\ ~interrupted
  <2> DEFINE n == Cardinality(targets)
             q == SetToSeq(targets)
  <2>1. Report = [i \in 1..n |-> [path |-> q[i], status |-> job[q[i]]]]
    BY <1>4 DEF Report, InOrder
  <2>2. IsFiniteSet(targets)
    BY FleetAssumption, FS_Subset DEF LogInv, LogTypes
  <2>3. /\ n \in Nat /\ q \in [1..n -> targets]
        /\ \A i, j \in 1..n : q[i] = q[j] => i = j
        /\ \A x \in targets : \E i \in 1..n : q[i] = x
    BY <2>2, Enumeration
  <2> HIDE DEF n, q
  <2>4. \A p \in targets : p \in Paths /\ job[p] \in {"success", "error"}
    <3> SUFFICES ASSUME NEW p \in targets PROVE p \in Paths /\ job[p] \in {"success", "error"}
      OBVIOUS
    <3>1. PICK i \in DOMAIN collected : collected[i].path = p
      BY <1>4 DEF LogInv, Threads, Taken
    <3>2. collected[i] \in Result /\ job[p] = collected[i].status
      BY <1>1, <3>1 DEF LogInv, Collected, AtWork
    <3> QED
      BY <3>2 DEF Result, LogInv, LogTypes
  <2>5. \A i \in 1..n : [path |-> q[i], status |-> job[q[i]]] \in Result
    BY <2>3, <2>4 DEF Result
  <2>6. Report \in Seq(Result) /\ DOMAIN Report = 1..n /\ \A i \in 1..n : Report[i].path = q[i]
    BY <2>1, <2>3, <2>5
  <2> QED
    BY <2>3, <2>6
<1> QED
  BY <1>2, <1>3, <1>4

LEMMA FinishRunLog == LogInv /\ FinishRun => LogInv'
<1> SUFFICES ASSUME LogInv, FinishRun PROVE LogInv'
  OBVIOUS
<1>1. /\ pc = "finish" /\ pc' = "idle" /\ UNCHANGED <<run, targets, job, collected, interrupted>>
      /\ runlog' = [runlog EXCEPT ![run].projects = Report, ![run].finished = TRUE,
                                  ![run].crashed = interrupted]
  BY DEF FinishRun, Goto
<1>2. run \in Runs /\ run # 0 /\ runlog[run] \in Record
  BY <1>1 DEF LogInv, LogTypes, Unfinished, AtWork
<1> DEFINE report == Report
           entry == [runlog[run] EXCEPT !.projects = report, !.finished = TRUE, !.crashed = interrupted]
<1>3. /\ report \in Seq(Result)
      /\ ~interrupted => {report[i].path : i \in DOMAIN report} = targets
      /\ \A i, j \in DOMAIN report : report[i].path = report[j].path => i = j
  BY <1>1, ReportComplete
<1>4. runlog' = [runlog EXCEPT ![run] = entry]
  BY <1>1
<1> HIDE DEF report
<1>5. entry \in Record /\ entry.projects = report /\ entry.crashed = interrupted
  BY <1>2, <1>3 DEF Record, LogInv, LogTypes
<1> HIDE DEF entry
<1>6. LogTypes'
  BY <1>1, <1>2, <1>4, <1>5 DEF LogInv, LogTypes
<1>7. Unwritten' /\ Unfinished' /\ Threads' /\ Collected'
  BY <1>1, <1>2, <1>4, RunIds DEF LogInv, LogTypes, Unwritten, Unfinished, Threads, Collected, AtWork,
                                  Queued
<1>8. FinishedMeansQuiet'
  <2>1. runlog'[run'] = entry /\ Running' = {} /\ targets' = targets
    BY <1>1, <1>2, <1>4 DEF LogInv, LogTypes, Threads, Running
  <2> QED
    BY <2>1, <1>3, <1>5 DEF FinishedMeansQuiet
<1> QED
  BY <1>6, <1>7, <1>8 DEF LogInv

LEMMA InterruptLog == LogInv /\ Interrupt => LogInv'
<1> SUFFICES ASSUME LogInv, Interrupt PROVE LogInv'
  OBVIOUS
<1>1. UNCHANGED <<runlog, run, targets, collected>>
  BY DEF Interrupt
<1>2. ASSUME NEW S \in SUBSET Queued, pc \in {"pool", "save"}, Cancel(S), interrupted' \in BOOLEAN,
             (pc' = "join" /\ interrupted' = TRUE) \/ pc' = "leave"
      PROVE  LogInv'
  <2>1. job' = [p \in Paths |-> IF p \in S THEN "cancelled" ELSE job[p]]
    BY <1>2 DEF Cancel
  <2>2. LogTypes' /\ Unwritten' /\ Unfinished'
    BY <1>1, <1>2, <2>1 DEF LogInv, LogTypes, Unwritten, Unfinished, AtWork, Futures
  <2>3. Threads'
    BY <1>1, <1>2, <2>1 DEF LogInv, LogTypes, Unfinished, Threads, Queued, AtWork
  <2>4. Collected'
    <3> SUFFICES ASSUME NEW i \in DOMAIN collected PROVE job'[collected[i].path] = collected[i].status
      BY <1>1, <1>2 DEF LogInv, Collected, AtWork
    <3>1. collected[i] \in Result /\ job[collected[i].path] = collected[i].status
      BY <1>2 DEF LogInv, LogTypes, Collected, AtWork
    <3> QED
      BY <1>2, <2>1, <3>1 DEF Result, Queued
  <2>5. FinishedMeansQuiet'
    BY <1>1, <1>2 DEF LogInv, Unfinished, FinishedMeansQuiet, AtWork
  <2> QED
    BY <2>2, <2>3, <2>4, <2>5 DEF LogInv
<1>3. CASE pc \in {"pool", "save"} /\ Cancel(Queued) /\ interrupted' = TRUE /\ Goto("join")
  BY <1>2, <1>3 DEF Goto
<1>4. CASE pc = "pool" /\ (\E S \in SUBSET Queued : Cancel(S))
           /\ interrupted' = (runlog[run].command = "dispatch")
           /\ Goto(IF interrupted' THEN "join" ELSE "leave")
  <2>1. interrupted' \in BOOLEAN
    BY <1>4
  <2>2. (pc' = "join" /\ interrupted' = TRUE) \/ pc' = "leave"
    BY <1>4, <2>1 DEF Goto
  <2> QED
    BY <1>2, <1>4, <2>1, <2>2
<1>5. CASE pc \notin {"pool", "save"} /\ Goto("idle") /\ UNCHANGED <<job, interrupted>>
  BY <1>1, <1>5 DEF Goto, LogInv, LogTypes, Unwritten, Unfinished, Threads, Collected, FinishedMeansQuiet,
                    AtWork, Queued, Running
<1> QED
  BY <1>3, <1>4, <1>5 DEF Interrupt

LEMMA KillLog == LogInv /\ Kill => LogInv'
<1> SUFFICES ASSUME LogInv, Kill PROVE LogInv'
  OBVIOUS
<1>1. /\ pc' = "idle" /\ UNCHANGED <<runlog, run, targets, collected, interrupted>>
      /\ job' = [p \in Paths |-> "none"]
  BY DEF Kill, Goto
<1>2. LogTypes' /\ Unwritten' /\ Unfinished' /\ Threads' /\ Collected'
  BY <1>1 DEF LogInv, LogTypes, Unwritten, Unfinished, Threads, Collected, AtWork, Queued, Futures
<1>3. FinishedMeansQuiet'
  BY <1>1 DEF LogInv, FinishedMeansQuiet, Running
<1> QED
  BY <1>2, <1>3 DEF LogInv

LEMMA LogWellFormed == Spec => []LogInv
<1>1. Init => LogInv
  BY LogInvInit
<1>2. LogInv /\ RegistryTypes /\ [Next]_vars => LogInv'
  BY OthersKeepLog, StartCommandLog, WriteRunLog, JobsLog, CollectLog, SaveResultLog, LeavePoolLog,
     FinishRunLog, InterruptLog, KillLog DEF Next, Command, Pool
<1> QED
  BY <1>1, <1>2, RegistryWellFormed, PTL DEF Spec

(* When a record is finished no thread of its run is at work, and if       *)
(* nobody interrupted the command the record has one result for each of    *)
(* its projects (executor.py, run.py, dispatch.py).                        *)
THEOREM FinishedRunsAreQuiet == Spec => []FinishedMeansQuiet
<1>1. LogInv => FinishedMeansQuiet
  BY DEF LogInv
<1> QED
  BY <1>1, LogWellFormed, PTL

-----------------------------------------------------------------------------
(* The viewer.  What it printed begins the results of the record.          *)
Begins(s, t) == Len(s) <= Len(t) /\ \A i \in 1..Len(s) : s[i] = t[i]

LEMMA PrefixBegins ==
    ASSUME NEW X, NEW s \in Seq(X), NEW t \in Seq(X)
    PROVE  IsPrefix(s, t) <=> Begins(s, t)
<1>1. CASE Len(s) <= Len(t)
  <2>1. SubSeq(s, 1, Len(s)) = s
    OBVIOUS
  <2>2. SubSeq(t, 1, Len(s)) \in Seq(X) /\ Len(SubSeq(t, 1, Len(s))) = Len(s)
    BY <1>1
  <2>3. \A i \in 1..Len(s) : SubSeq(t, 1, Len(s))[i] = t[i]
    BY <1>1
  <2>4. s = SubSeq(t, 1, Len(s)) <=> \A i \in 1..Len(s) : s[i] = t[i]
    BY <2>2, <2>3
  <2> QED
    BY <1>1, <2>1, <2>4 DEF IsPrefix, Begins
<1> QED
  BY <1>1 DEF IsPrefix, Begins

LEMMA RestCompletes ==
    ASSUME NEW X, NEW s \in Seq(X), NEW t \in Seq(X), Begins(s, t)
    PROVE  s \o SubSeq(t, Len(s) + 1, Len(t)) = t
<1> DEFINE r == SubSeq(t, Len(s) + 1, Len(t))
<1>1. r \in Seq(X) /\ Len(r) = Len(t) - Len(s)
  BY DEF Begins
<1>2. \A i \in 1..Len(r) : r[i] = t[Len(s) + i]
  BY DEF Begins
<1> HIDE DEF r
<1>3. s \o r \in Seq(X) /\ Len(s \o r) = Len(t)
  BY <1>1 DEF Begins
<1>4. ASSUME NEW i \in 1..Len(t) PROVE (s \o r)[i] = t[i]
  <2>1. CASE i <= Len(s)
    BY <1>1, <2>1 DEF Begins
  <2>2. CASE i > Len(s)
    <3>1. i - Len(s) \in 1..Len(r) /\ Len(s) + (i - Len(s)) = i
      BY <1>1, <2>2
    <3>2. (s \o r)[i] = r[i - Len(s)]
      BY <1>1, <2>2
    <3> QED
      BY <1>2, <3>1, <3>2
  <2>3. i <= Len(s) \/ i > Len(s)
    OBVIOUS
  <2> QED
    BY <2>1, <2>2, <2>3
<1> QED
  BY <1>3, <1>4 DEF r

ViewTypes ==
    /\ viewed \in Runs \cup {0} /\ vpc \in {"idle", "tail", "done"} /\ printed \in Seq(Result)
    /\ vpc = "idle" => printed = <<>>
Shown ==
    vpc # "idle" =>
        /\ viewed \in Runs /\ runlog[viewed] # NoRecord
        /\ Begins(printed, runlog[viewed].projects)
        /\ vpc = "done" => runlog[viewed].finished /\ printed = runlog[viewed].projects
Growing ==
    AtWork => IF runlog[run].command = "run" THEN Begins(runlog[run].projects, collected)
              ELSE runlog[run].projects = <<>> /\ pc # "save"
ViewInv == ViewTypes /\ Shown /\ Growing

LEMMA ViewerKeeps == ASSUME LogInv, ViewInv, Viewer PROVE ViewInv'
<1> USE DEF ViewInv
<1>1. UNCHANGED commandVars /\ Growing'
  BY DEF Viewer, ShowRun, Tail_run, commandVars, Growing, AtWork
<1>2. ASSUME NEW r \in Runs, ShowRun(r) PROVE ViewTypes' /\ Shown'
  <2>1. runlog[r] \in Record /\ runlog[r].projects \in Seq(Result)
    BY <1>2 DEF ShowRun, LogInv, LogTypes, Record
  <2>2. CASE runlog[r].finished
    <3>1. viewed' = r /\ printed' = runlog[r].projects /\ vpc' = "done" /\ runlog' = runlog
      BY <1>2, <2>2 DEF ShowRun, commandVars
    <3>2. ViewTypes'
      BY <2>1, <3>1 DEF ViewTypes
    <3>3. Begins(printed', runlog'[r].projects)
      BY <2>1, <3>1 DEF Begins
    <3> QED
      BY <1>2, <2>2, <3>1, <3>2, <3>3 DEF Shown, ShowRun
  <2>3. CASE ~runlog[r].finished
    <3>1. viewed' = r /\ printed' = printed /\ vpc' = "tail" /\ runlog' = runlog /\ printed = <<>>
      BY <1>2, <2>3 DEF ShowRun, commandVars, ViewTypes
    <3>2. ViewTypes'
      BY <3>1 DEF ViewTypes
    <3>3. Begins(printed', runlog'[r].projects)
      BY <2>1, <3>1 DEF Begins
    <3> QED
      BY <1>2, <3>1, <3>2, <3>3 DEF Shown, ShowRun
  <2> QED
    BY <2>2, <2>3
<1>3. ASSUME Tail_run PROVE ViewTypes' /\ Shown'
  <2>1. /\ vpc = "tail" /\ viewed \in Runs /\ viewed' = viewed /\ runlog' = runlog
        /\ runlog[viewed] # NoRecord /\ Begins(printed, runlog[viewed].projects)
    BY <1>3 DEF Tail_run, Shown, commandVars
  <2>2. runlog[viewed] \in Record /\ runlog[viewed].projects \in Seq(Result) /\ printed \in Seq(Result)
    BY <2>1 DEF LogInv, LogTypes, Record, ViewTypes
  <2>3. printed' = runlog[viewed].projects
    BY <1>3, <2>1, <2>2, RestCompletes DEF Tail_run
  <2>4. vpc' = IF runlog[viewed].finished THEN "done" ELSE "tail"
    BY <1>3 DEF Tail_run
  <2>5. Begins(printed', runlog'[viewed].projects)
    BY <2>1, <2>2, <2>3 DEF Begins
  <2> QED
    BY <2>1, <2>2, <2>3, <2>4, <2>5 DEF ViewTypes, Shown
<1> QED
  BY <1>1, <1>2, <1>3 DEF Viewer

(* A record that is viewed only grows.                                     *)
LEMMA RecordGrows ==
    ASSUME ViewInv, UNCHANGED viewVars,
           \A r \in Runs : runlog[r] # NoRecord /\ runlog'[r] # runlog[r] =>
              /\ ~runlog[r].finished /\ runlog'[r] # NoRecord
              /\ \A s \in Seq(Result) : Begins(s, runlog[r].projects) => Begins(s, runlog'[r].projects)
    PROVE  ViewTypes' /\ Shown'
BY DEF ViewInv, ViewTypes, Shown, viewVars

LEMMA CommandKeeps ==
    ASSUME LogInv, LogInv', ViewInv, StartCommand \/ Command \/ Pool \/ Interrupt \/ Kill
    PROVE  ViewInv'
<1>1. UNCHANGED viewVars
  BY DEF StartCommand, Command, WriteRun, Collect, SaveResult, AllCollected, Join, FinishRun, Pool,
         StartJob, FinishJob, Interrupt, Kill
<1>2. CASE ~WriteRun /\ ~SaveResult /\ ~FinishRun /\ ~\E p \in Paths : Collect(p)
  <2>1. runlog' = runlog
    BY <1>2 DEF StartCommand, Command, AllCollected, Join, Pool, StartJob, FinishJob, Interrupt, Kill
  <2>2. AtWork' => AtWork /\ UNCHANGED <<run, collected>> /\ (pc' # "save" \/ pc' = pc)
    BY <1>2 DEF StartCommand, Command, AllCollected, Join, Pool, StartJob, FinishJob, Interrupt, Kill, AtWork,
                Goto
  <2>3. Growing'
    BY <2>1, <2>2 DEF ViewInv, Growing, AtWork
  <2> QED
    BY <1>1, <2>1, <2>3, RecordGrows DEF ViewInv
<1>3. ASSUME NEW p \in Paths, Collect(p) PROVE ViewInv'
  <2>1. /\ pc = "pool" /\ pc' = IF runlog[run].command = "run" THEN "save" ELSE "pool"
        /\ UNCHANGED <<runlog, run>> /\ collected' = Append(collected, [path |-> p, status |-> job[p]])
    BY <1>3 DEF Collect, Goto
  <2>2. collected \in Seq(Result) /\ [path |-> p, status |-> job[p]] \in Result
    BY <1>3 DEF LogInv, LogTypes, Collect, Done, Result
  <2>3. \A s \in Seq(Result) : Begins(s, collected) => Begins(s, collected')
    BY <2>1, <2>2 DEF Begins
  <2>4. run \in Runs /\ runlog[run].projects \in Seq(Result)
    BY <2>1 DEF LogInv, LogTypes, Unfinished, AtWork, Record
  <2>5. Growing'
    BY <2>1, <2>3, <2>4 DEF ViewInv, Growing, AtWork
  <2> QED
    BY <1>1, <2>1, <2>5, RecordGrows DEF ViewInv
<1>4. CASE WriteRun
  <2>1. PICK c \in {"run", "dispatch"} :
            runlog' = [runlog EXCEPT ![run] = [command |-> c, projects |-> <<>>,
                                               finished |-> FALSE, crashed |-> FALSE]]
    BY <1>4 DEF WriteRun
  <2>2. /\ run \in Runs /\ runlog[run] = NoRecord /\ run' = run /\ pc' # "save"
        /\ collected' = <<>> /\ runlog \in [Runs -> Record \cup {NoRecord}]
    BY <1>4, RunIds DEF WriteRun, Goto, LogInv, LogTypes, Unwritten, Collected
  <2>3. Growing'
    BY <2>1, <2>2 DEF Growing, AtWork, Begins
  <2>4. \A r \in Runs : runlog[r] # NoRecord => runlog'[r] = runlog[r]
    BY <2>1, <2>2
  <2> QED
    BY <1>1, <2>3, <2>4, RecordGrows DEF ViewInv
<1>5. CASE SaveResult
  <2>1. /\ pc = "save" /\ pc' = "pool" /\ runlog' = [runlog EXCEPT ![run].projects = collected]
        /\ UNCHANGED <<run, collected>>
    BY <1>5 DEF SaveResult, Goto
  <2>2. /\ run \in Runs /\ runlog[run] \in Record /\ ~runlog[run].finished
        /\ runlog[run].projects \in Seq(Result) /\ collected \in Seq(Result)
    BY <2>1 DEF LogInv, LogTypes, Unfinished, AtWork, Record
  <2>3. runlog[run].command = "run" /\ Begins(runlog[run].projects, collected)
    BY <2>1 DEF ViewInv, Growing, AtWork
  <2>4. /\ runlog'[run] # NoRecord /\ runlog'[run].projects = collected /\ runlog'[run].command = "run"
        /\ \A r \in Runs : r # run => runlog'[r] = runlog[r]
    BY <2>1, <2>2, <2>3 DEF LogInv, LogTypes, Record, NoRecord
  <2>5. Growing'
    BY <2>1, <2>2, <2>4 DEF Growing, AtWork, Begins
  <2>6. \A s \in Seq(Result) : Begins(s, runlog[run].projects) => Begins(s, collected)
    BY <2>2, <2>3 DEF Begins
  <2> QED
    BY <1>1, <2>2, <2>4, <2>5, <2>6, RecordGrows DEF ViewInv
<1>6. CASE FinishRun
  <2>1. /\ pc = "finish" /\ pc' = "idle"
        /\ runlog' = [runlog EXCEPT ![run].projects = Report, ![run].finished = TRUE,
                                    ![run].crashed = interrupted]
    BY <1>6 DEF FinishRun, Goto
  <2>2. /\ run \in Runs /\ runlog[run] \in Record /\ ~runlog[run].finished
        /\ runlog[run].projects \in Seq(Result) /\ collected \in Seq(Result) /\ Report \in Seq(Result)
    BY <2>1, ReportComplete DEF LogInv, LogTypes, Unfinished, AtWork, Record
  <2>3. Begins(runlog[run].projects, Report)
    <3>1. CASE runlog[run].command = "run"
      BY <2>1, <3>1 DEF ViewInv, Growing, AtWork, Report
    <3>2. CASE runlog[run].command # "run"
      <4>1. runlog[run].projects = <<>>
        BY <2>1, <3>2 DEF ViewInv, Growing, AtWork
      <4> QED
        BY <2>2, <4>1 DEF Begins
    <3> QED
      BY <3>1, <3>2
  <2> DEFINE report == Report
  <2>4. /\ runlog'[run] # NoRecord /\ runlog'[run].projects = report
        /\ \A r \in Runs : r # run => runlog'[r] = runlog[r]
    <3> HIDE DEF report
    <3>1. runlog'[run] = [runlog[run] EXCEPT !.projects = report, !.finished = TRUE, !.crashed = interrupted]
      BY <2>1, <2>2 DEF LogInv, LogTypes, report
    <3> QED
      BY <2>1, <2>2, <3>1 DEF LogInv, LogTypes, Record, NoRecord
  <2> HIDE DEF report
  <2>5. \A s \in Seq(Result) : Begins(s, runlog[run].projects) => Begins(s, report)
    BY <2>2, <2>3 DEF Begins, report
  <2>6. Growing'
    BY <2>1 DEF Growing, AtWork
  <2> QED
    BY <1>1, <2>2, <2>4, <2>5, <2>6, RecordGrows DEF ViewInv
<1> QED
  BY <1>2, <1>3, <1>4, <1>5, <1>6

(* runs show, which counts the results it has seen of a file that is       *)
(* rewritten under it, prints exactly the results of the record, in their  *)
(* order (runlog.py: tail_run).                                            *)
THEOREM ViewersSeeTheRecord == Spec => []ViewerFaithful
<1>1. Init => ViewInv
  BY DEF Init, ViewInv, ViewTypes, Shown, Growing, AtWork
<1>2. LogInv /\ LogInv' /\ ViewInv /\ [Next]_vars => ViewInv'
  <2>1. LogInv /\ ViewInv /\ (Registry \/ UNCHANGED vars) => ViewInv'
    <3>1. Registry \/ UNCHANGED vars => UNCHANGED <<commandVars, viewVars>>
      BY DEF Registry, LoadRegistry, Register, Unregister, Refuse, SaveRegistry, vars
    <3> QED
      BY <3>1 DEF ViewInv, ViewTypes, Shown, Growing, AtWork, commandVars, viewVars
  <2> QED
    BY <2>1, ViewerKeeps, CommandKeeps DEF Next
<1>3. LogInv /\ ViewInv => ViewerFaithful
  <2> SUFFICES ASSUME LogInv, ViewInv, vpc # "idle" PROVE ViewerFaithful
    BY DEF ViewerFaithful
  <2>1. printed \in Seq(Result) /\ runlog[viewed].projects \in Seq(Result)
    BY DEF LogInv, LogTypes, ViewInv, ViewTypes, Shown, Record
  <2> QED
    BY <2>1, PrefixBegins DEF ViewInv, Shown, ViewerFaithful
<1> QED
  BY <1>1, <1>2, <1>3, LogWellFormed, PTL DEF Spec

-----------------------------------------------------------------------------
(* The assets of a project.  What the manifest has of the bundle is no     *)
(* text of the user's, and has the plain name of an asset; and the user    *)
(* owns what she added.                                                    *)
Sourced ==
    \A f \in Tracked :
        /\ manifest[f].source = "user" => manifest[f].user_owned = TRUE
        /\ manifest[f].source = "bundled" => manifest[f].sha.by \notin UserMade /\ f[2] = 0

(* Unless a command wrote files and not the manifest, an asset that is not *)
(* what the manifest has was edited.                                       *)
Recognized ==
    ~bypassed => \A f \in Tracked :
        manifest[f].source = "bundled" /\ f # File(Config) =>
            disk[f] = Absent \/ disk[f].by = "user" \/ disk[f] = manifest[f].sha

UInv == UpgradeTypeOK /\ Sourced /\ Recognized

LEMMA LeastNat ==
    ASSUME NEW S, S \subseteq Nat, S # {}
    PROVE  \E x \in S : \A y \in S : x <= y
<1>1. \E x \in S : \A y \in S : ~(<<y, x>> \in OpToRel(<, Nat))
  BY NatLessThanWellFounded, WFMin
<1>2. PICK x \in S : \A y \in S : ~(<<y, x>> \in OpToRel(<, Nat))
  BY <1>1
<1>3. \A y \in S : ~(y < x)
  BY <1>2 DEF OpToRel
<1>4. \A y \in S : x <= y
  BY <1>3
<1> QED
  BY <1>4

LEMMA LeastIsMin ==
    ASSUME NEW S, S \subseteq Nat, NEW x \in S, \A y \in S : x <= y
    PROVE  Min(S) = x
<1> DEFINE m == CHOOSE z \in S : \A y \in S : z <= y
<1>1. m \in S /\ \A y \in S : m <= y
  OBVIOUS
<1> HIDE DEF m
<1>2. m \in Nat /\ x \in Nat /\ m <= x /\ x <= m
  BY <1>1
<1>3. m = x
  BY <1>2
<1> QED
  BY <1>3 DEF m, Min

LEMMA MinIn ==
    ASSUME NEW S, S \subseteq Nat, S # {}
    PROVE  Min(S) \in S
<1>1. PICK x \in S : \A y \in S : x <= y
  BY LeastNat
<1> QED
  BY <1>1, LeastIsMin

-----------------------------------------------------------------------------
(* Files.                                                                  *)
LEMMA AFile ==
    ASSUME NEW f \in Files
    PROVE  /\ f = <<f[1], f[2]>> /\ f[1] \in Assets /\ f[2] \in 0..MaxSuffix /\ f[2] \in Nat
           /\ \A n \in 0..MaxSuffix : <<f[1], n>> \in Files
  BY UpgradeAssumption DEF Files

LEMMA AssetsAreFiles ==
    ASSUME release \in Releases
    PROVE  /\ \A a \in Assets : File(a) \in Files /\ File(a)[1] = a /\ File(a)[2] = 0
           /\ Bundle \subseteq Files /\ File(Config) \in Files
           /\ \A f \in Bundle : f[2] = 0 /\ f[1] \in Assets
<1>1. \A a \in Assets : File(a) \in Files /\ File(a)[1] = a /\ File(a)[2] = 0
  BY UpgradeAssumption DEF File, Files
<1>2. Shipped[release] \subseteq Assets /\ Config \in Assets
  BY UpgradeAssumption DEF Assets
<1> QED
  BY <1>1, <1>2 DEF Bundle

LEMMA ContentTypes ==
    ASSUME release \in Releases
    PROVE  /\ Absent \in Contents /\ Absent.by = "none"
           /\ Pristine \in Contents /\ Pristine.by = "bundle" /\ Pristine # Absent
           /\ [by |-> "init", v |-> release] \in Contents /\ [by |-> "user", v |-> release] \in Contents
           /\ Remnant \in Contents /\ \A c : Rewritten(c) \in Contents
           /\ Absent.by \notin UserMade /\ Pristine.by \notin UserMade
           /\ \A c \in Contents : c = [by |-> c.by, v |-> c.v] /\ c.v \in {0} \cup Releases
  BY DEF Absent, Pristine, Contents, Remnant, Rewritten, UserMade

LEMMA CutShortFacts ==
    ASSUME UpgradeTypeOK, NEW d \in [Files -> Contents], NEW S
    PROVE  \A e \in CutShort(d, S) : e \in [Files -> Contents] /\ \A f \in Files \ S : e[f] = d[f]
<1>1. Remnant \in Contents
  BY ContentTypes DEF UpgradeTypeOK
<1> QED
  BY <1>1 DEF CutShort

(* What a row of disabled files pushes to f.                               *)
LEMMA CarriedTypes ==
    ASSUME UpgradeTypeOK, NEW f \in Files, NEW D
    PROVE  Carried(f, D) \in Contents
<1>1. Reaching(f, D) \subseteq Nat /\ Reaching(f, D) \subseteq 0..f[2]
  BY AFile DEF Reaching
<1>2. CASE Reaching(f, D) = {}
  BY <1>2, ContentTypes DEF Carried, UpgradeTypeOK
<1>3. CASE Reaching(f, D) # {}
  <2>1. Min(Reaching(f, D)) \in 0..f[2]
    BY <1>1, <1>3, MinIn
  <2>2. Min(Reaching(f, D)) \in 0..MaxSuffix
    BY <2>1, AFile, UpgradeAssumption
  <2>3. <<f[1], Min(Reaching(f, D))>> \in Files
    BY <2>2, AFile
  <2> QED
    BY <1>3, <2>3 DEF Carried, UpgradeTypeOK
<1> QED
  BY <1>2, <1>3

LEMMA CarriedPlain ==
    ASSUME UpgradeTypeOK, NEW f \in Files, f[2] = 0, NEW D
    PROVE  Carried(f, D) = disk[f]
<1>1. f = <<f[1], 0>>
  BY AFile
<1>2. \A n \in Reaching(f, D) : n = 0
  BY DEF Reaching
<1>3. 0 \in Reaching(f, D) <=> disk[f] # Absent
  BY <1>1 DEF Reaching
<1>4. CASE disk[f] = Absent
  BY <1>2, <1>3, <1>4 DEF Carried
<1>5. CASE disk[f] # Absent
  <2>1. Min(Reaching(f, D)) = 0
    BY <1>2, <1>3, <1>5, LeastIsMin
  <2> QED
    BY <1>1, <1>3, <1>5, <2>1 DEF Carried
<1> QED
  BY <1>4, <1>5

LEMMA CarriedOn ==
    ASSUME UpgradeTypeOK, NEW f \in Files, f[2] = 0, disk[f] # Absent, NEW D, f \in D,
           \A g \in D : g[2] # MaxSuffix
    PROVE  \E n \in 1..MaxSuffix : <<f[1], n>> \notin D /\ Carried(<<f[1], n>>, D) = disk[f]
<1> DEFINE free == {n \in 0..MaxSuffix : <<f[1], n>> \notin D}
<1>1. MaxSuffix \in Nat /\ f = <<f[1], 0>>
  BY UpgradeAssumption, AFile
<1>2. MaxSuffix \in free /\ free \subseteq Nat /\ 0 \notin free
  BY <1>1
<1>3. PICK n \in free : \A m \in free : n <= m
  BY <1>2, LeastNat
<1>4. n \in 1..MaxSuffix /\ <<f[1], n>> \notin D /\ \A m \in 0..n : m = n \/ <<f[1], m>> \in D
  BY <1>1, <1>2, <1>3
<1> DEFINE g == <<f[1], n>>
<1>5. g[1] = f[1] /\ g[2] = n
  OBVIOUS
<1> HIDE DEF g, free
<1>6. 0 \in Reaching(g, D) /\ Reaching(g, D) \subseteq Nat
  BY <1>1, <1>4, <1>5 DEF Reaching
<1>7. Min(Reaching(g, D)) = 0
  <2>1. \A m \in Reaching(g, D) : 0 <= m
    BY <1>6
  <2> QED
    BY <1>6, <2>1, LeastIsMin
<1>8. Carried(g, D) = disk[f]
  BY <1>1, <1>5, <1>6, <1>7 DEF Carried
<1> QED
  BY <1>4, <1>8 DEF g

-----------------------------------------------------------------------------
(* What an upgrade decides.                                                *)
LEMMA Decided ==
    ASSUME UpgradeTypeOK
    PROVE  /\ Copied \subseteq Bundle /\ Disabled \cap Bundle = {} /\ Added \cap Bundle = {}
           /\ Disabled \subseteq Tracked /\ Added \cap Tracked = {} /\ Added \subseteq Files
           /\ \A f \in Disabled : f[2] # MaxSuffix
           /\ Bundle \subseteq Files /\ Bundle \ Tracked \subseteq Copied
           /\ \A f \in Copied \cap Tracked : manifest[f].user_owned # TRUE
           /\ \A f \in Tracked \ Bundle : f \in Disabled \/ f[2] = MaxSuffix
           /\ \A f \in (Bundle \cap Tracked) \ Copied :
                  \/ manifest[f].user_owned = TRUE \/ disk[f] = Pristine
                  \/ disk[f] # Absent /\ disk[f] # manifest[f].sha
<1>1. release \in Releases /\ Tracked \subseteq Files
      /\ \A f \in Tracked : manifest[f] \in Entries
  BY DEF UpgradeTypeOK, Tracked
<1>2. Bundle \subseteq Files
  BY <1>1, AssetsAreFiles
<1>3. \A f \in Tracked : manifest[f].user_owned \in BOOLEAN
  BY <1>1 DEF Entries
<1>4. \A f \in Bundle : Decide(f) \in {"new", "skipped_user_owned", "restored", "skipped_modified", "unchanged",
                                     "update"}
  BY DEF Decide
<1>5. \A f \in Files \ Bundle :
          /\ Decide(f) \in {"none", "disabled", "user_added"}
          /\ Decide(f) = "disabled" => f \in Tracked /\ f[2] # MaxSuffix
          /\ Decide(f) = "user_added" => f \notin Tracked
          /\ f \in Tracked => Decide(f) = "disabled" \/ f[2] = MaxSuffix
  BY DEF Decide
<1>6. \A f \in Bundle \ Tracked : Decide(f) = "new"
  BY DEF Decide
<1>7. \A f \in Bundle \cap Tracked :
          /\ Decide(f) \in {"new", "restored", "update"} => manifest[f].user_owned # TRUE
          /\ \/ Decide(f) \in {"new", "restored", "update"}
             \/ manifest[f].user_owned = TRUE \/ disk[f] = Pristine
             \/ disk[f] # Absent /\ disk[f] # manifest[f].sha
  BY <1>3 DEF Decide
<1>8. /\ \A f \in Files : f \in Copied <=> Decide(f) \in {"new", "update", "restored"}
      /\ \A f \in Files : f \in Disabled <=> Decide(f) = "disabled"
      /\ \A f \in Files : f \in Added <=> Decide(f) = "user_added"
      /\ Copied \subseteq Files /\ Disabled \subseteq Files /\ Added \subseteq Files
  BY DEF Copied, Disabled, Added
<1>9. Copied \subseteq Bundle /\ Disabled \cap Bundle = {} /\ Added \cap Bundle = {}
  BY <1>2, <1>4, <1>5, <1>8
<1>10. Disabled \subseteq Tracked /\ Added \cap Tracked = {} /\ \A f \in Disabled : f[2] # MaxSuffix
  BY <1>5, <1>8, <1>9
<1>11. Bundle \ Tracked \subseteq Copied /\ \A f \in Tracked \ Bundle : f \in Disabled \/ f[2] = MaxSuffix
  BY <1>1, <1>2, <1>5, <1>6, <1>8
<1>12. \A f \in Copied \cap Tracked : manifest[f].user_owned # TRUE
  BY <1>2, <1>7, <1>8, <1>9
<1>13. \A f \in (Bundle \cap Tracked) \ Copied :
           \/ manifest[f].user_owned = TRUE \/ disk[f] = Pristine
           \/ disk[f] # Absent /\ disk[f] # manifest[f].sha
  BY <1>2, <1>7, <1>8
<1> QED
  BY <1>2, <1>8, <1>9, <1>10, <1>11, <1>12, <1>13

LEMMA MergedFacts ==
    ASSUME release \in Releases, NEW d \in [Files -> Contents], NEW m \in Merged(d)
    PROVE  /\ m \in [Files -> Contents]
           /\ \A f \in Files \ {File(Config)} : m[f] = d[f]
           /\ d[File(Config)].by \in UserMade =>
                  m[File(Config)] = d[File(Config)] \/ m[File(Config)].by = "settings"
<1> PICK c : c = File(Config)
  OBVIOUS
<1>1. c \in Files /\ Rewritten(d[c]) \in Contents
  BY AssetsAreFiles, ContentTypes
<1>2. d[c].by \in UserMade => Rewritten(d[c]).by = "settings"
  BY DEF Rewritten
<1>3. m = d \/ m = [d EXCEPT ![c] = Rewritten(d[c])]
  BY DEF Merged
<1> QED
  BY <1>1, <1>2, <1>3

LEMMA AppliedFacts ==
    ASSUME UpgradeTypeOK, NEW C, NEW D
    PROVE  /\ Applied(C, D) \in [Files -> Contents]
           /\ \A f \in Files \cap C : Applied(C, D)[f] = Pristine
           /\ \A f \in (Files \cap D) \ C : Applied(C, D)[f] = Absent
           /\ \A f \in Files \ (C \cup D) : Applied(C, D)[f] = Carried(f, D)
<1>1. release \in Releases
  BY DEF UpgradeTypeOK
<1>2. Pristine \in Contents /\ Absent \in Contents /\ \A f \in Files : Carried(f, D) \in Contents
  BY <1>1, ContentTypes, CarriedTypes
<1> QED
  BY <1>2 DEF Applied

-----------------------------------------------------------------------------
(* An upgrade, complete or killed after part of it, keeps the user's text. *)
KeptIn(d, f) == d[f] = disk[f] \/ \E n \in 1..MaxSuffix : d[<<f[1], n>>] = disk[f]

LEMMA KeptByUpgrade ==
    ASSUME UpgradeTypeOK, Sourced, NEW f \in Tracked, disk[f].by \in UserMade, f[2] = 0,
           NEW C \in SUBSET Copied, NEW D \in SUBSET Disabled, NEW d, d = Applied(C, D)
    PROVE  /\ f \notin C
           /\ KeptIn(d, f)
<1>1. f \in Files /\ release \in Releases /\ manifest[f] \in Entries
  BY DEF UpgradeTypeOK, Tracked
<1>2. disk[f] # Absent /\ disk[f] # Pristine
  BY <1>1, ContentTypes
<1>3. f \notin C
  <2> SUFFICES ASSUME f \in Copied PROVE FALSE
    OBVIOUS
  <2>1. manifest[f].user_owned # TRUE /\ f \in Bundle
    BY Decided
  <2>2. Decide(f) \in {"new", "update", "restored"}
    BY DEF Copied
  <2>3. disk[f] = manifest[f].sha
    BY <1>2, <2>1, <2>2 DEF Decide
  <2>4. manifest[f].source = "user" \/ manifest[f].source = "bundled"
    BY <1>1 DEF Entries
  <2> QED
    BY <2>1, <2>3, <2>4 DEF Sourced
<1>4. CASE f \notin D
  BY <1>1, <1>3, <1>4, AppliedFacts, CarriedPlain DEF KeptIn
<1>5. CASE f \in D
  <2>1. \A g \in D : g[2] # MaxSuffix
    BY Decided
  <2>2. PICK n \in 1..MaxSuffix : <<f[1], n>> \notin D /\ Carried(<<f[1], n>>, D) = disk[f]
    BY <1>1, <1>2, <1>5, <2>1, CarriedOn
  <2> DEFINE g == <<f[1], n>>
  <2>3. g \in Files /\ g[2] # 0
    BY <1>1, <2>2, AFile, UpgradeAssumption
  <2>4. g \notin C
    BY <1>1, <2>3, Decided, AssetsAreFiles
  <2>5. d[g] = disk[f]
    BY <2>2, <2>3, <2>4, AppliedFacts
  <2> QED
    BY <1>3, <2>2, <2>5 DEF KeptIn
<1> QED
  BY <1>3, <1>4, <1>5

-----------------------------------------------------------------------------
(* What an upgrade records of a file is the user's own, or what was there  *)
(* and in the manifest before, or the asset that it has just copied.       *)
Known(e, c) == e.source = "bundled" => c = Absent \/ c.by = "user" \/ c = e.sha
Sound(f, e) ==
    /\ e.source = "user" => e.user_owned = TRUE
    /\ e.source = "bundled" => e.sha.by \notin UserMade /\ f[2] = 0

LEMMA RecordedFacts ==
    ASSUME UInv
    PROVE  /\ DOMAIN Recorded = (Tracked \ Disabled) \cup Copied \cup Added
           /\ DOMAIN Recorded \subseteq Files
           /\ \A f \in DOMAIN Recorded :
                  /\ Recorded[f] \in Entries /\ Sound(f, Recorded[f])
                  /\ ~bypassed /\ f # File(Config) => Known(Recorded[f], Applied(Copied, Disabled)[f])
           /\ \A f \in (Tracked \ Disabled) \ (Copied \cup Added) : Recorded[f] = manifest[f]
<1>1. /\ release \in Releases /\ Tracked \subseteq Files /\ disk \in [Files -> Contents]
      /\ \A f \in Tracked : manifest[f] \in Entries
  BY DEF UInv, UpgradeTypeOK, Tracked
<1>2. DOMAIN Recorded = (Tracked \ Disabled) \cup Copied \cup Added /\ DOMAIN Recorded \subseteq Files
  <2>1. DOMAIN Recorded = (Tracked \ Disabled) \cup Copied \cup Added
    BY DEF Recorded
  <2> QED
    BY <1>1, <2>1, Decided DEF UInv
<1>3. \A f \in (Tracked \ Disabled) \ (Copied \cup Added) : Recorded[f] = manifest[f]
  BY DEF Recorded
<1> DEFINE Good(f) ==
        /\ Recorded[f] \in Entries /\ Sound(f, Recorded[f])
        /\ ~bypassed /\ f # File(Config) => Known(Recorded[f], Applied(Copied, Disabled)[f])
<1>4. ASSUME NEW f \in Added PROVE Good(f)
  <2>1. f \in Files /\ Recorded[f] = Entry(disk[f], TRUE, "user")
    BY <1>2 DEF Recorded
  <2> QED
    BY <1>1, <2>1 DEF Entry, Entries, Sound, Known
<1>5. ASSUME NEW f \in Copied PROVE Good(f)
  <2>1. f \in Bundle /\ f \in Files /\ f \notin Added /\ f[2] = 0
    BY <1>1, <1>2, Decided, AssetsAreFiles DEF UInv
  <2>2. Applied(Copied, Disabled)[f] = Pristine /\ Pristine \in Contents /\ Pristine.by \notin UserMade
    BY <1>1, <2>1, AppliedFacts, ContentTypes DEF UInv
  <2>3. Recorded[f] \in Entries /\ Recorded[f].sha = Pristine /\ Sound(f, Recorded[f])
    <3>1. CASE f \in Tracked
      <4>1. PICK e, p : e = manifest[f] /\ p = Pristine
        OBVIOUS
      <4>2. Recorded[f] = [e EXCEPT !.sha = p]
        BY <2>1, <3>1, <4>1 DEF Recorded
      <4>3. e \in Entries /\ p \in Contents /\ Sound(f, e)
        BY <1>1, <2>2, <3>1, <4>1 DEF UInv, Sourced, Sound
      <4>4. Recorded[f] = [sha |-> p, user_owned |-> e.user_owned, source |-> e.source]
        BY <4>2, <4>3 DEF Entries
      <4> QED
        BY <2>1, <2>2, <4>1, <4>3, <4>4 DEF Entries, Sound
    <3>2. CASE f \notin Tracked
      <4>1. Recorded[f] = Entry(Pristine, FALSE, "bundled")
        BY <2>1, <3>2 DEF Recorded
      <4> QED
        BY <2>1, <2>2, <4>1 DEF Entry, Entries, Sound
    <3> QED
      BY <3>1, <3>2
  <2> QED
    BY <2>2, <2>3 DEF Known
<1>6. ASSUME NEW f \in (Tracked \ Disabled) \ (Copied \cup Added) PROVE Good(f)
  <2>1. Recorded[f] = manifest[f] /\ manifest[f] \in Entries /\ Sound(f, manifest[f])
    BY <1>1, <1>3 DEF UInv, Sourced, Sound
  <2>2. manifest[f].source = "bundled" => Applied(Copied, Disabled)[f] = disk[f]
    BY <1>1, <2>1, AppliedFacts, CarriedPlain DEF UInv, Sound
  <2>3. ~bypassed /\ f # File(Config) => Known(manifest[f], disk[f])
    BY DEF UInv, Recognized, Known
  <2> QED
    BY <2>1, <2>2, <2>3 DEF Known
<1>7. \A f \in DOMAIN Recorded : Good(f)
  BY <1>2, <1>4, <1>5, <1>6
<1> QED
  BY <1>2, <1>3, <1>7

LEMMA Upgrades ==
    ASSUME UInv, UpgradeProject \/ UpgradeKilled
    PROVE  UInv'
<1>1. /\ UpgradeTypeOK /\ release \in Releases /\ record \in {"none", "torn", "whole"}
      /\ edits \in 0..MaxEdits /\ crashes \in 0..MaxCrashes /\ bypassed \in BOOLEAN
  BY DEF UInv, UpgradeTypeOK
<1>2. ASSUME NEW d \in [Files -> Contents], disk' = d,
             \A f \in Files \ {File(Config)} : d[f] = Applied(Copied, Disabled)[f],
             record' = "whole", manifest' = Recorded, release' = release, edits' = edits,
             crashes' \in 0..MaxCrashes, bypassed' = bypassed
      PROVE  UInv'
  <2>3. UpgradeTypeOK'
    BY <1>1, <1>2, RecordedFacts DEF UpgradeTypeOK
  <2>4. Tracked' = DOMAIN Recorded /\ Tracked' \subseteq Files
    BY <1>2, RecordedFacts DEF Tracked
  <2>5. Sourced'
    BY <1>2, <2>4, RecordedFacts DEF Sourced, Sound
  <2>6. Recognized'
    <3>1. File(Config)' = File(Config)
      BY DEF File
    <3> QED
      BY <1>2, <2>4, <3>1, RecordedFacts DEF Recognized, Known
  <2> QED
    BY <2>3, <2>5, <2>6 DEF UInv
<1>3. ASSUME disk' \in [Files -> Contents], bypassed' = TRUE, manifest' = manifest,
             record' \in {record, "torn"}, release' = release, edits' = edits, crashes' \in 0..MaxCrashes
      PROVE  UInv'
  <2>1. UpgradeTypeOK'
    BY <1>1, <1>3 DEF UpgradeTypeOK
  <2>2. Sourced'
    BY <1>3 DEF UInv, Sourced, Tracked
  <2> QED
    BY <1>3, <2>1, <2>2 DEF UInv, Recognized
<1> PICK a : a = Applied(Copied, Disabled)
  OBVIOUS
<1>4. a \in [Files -> Contents]
  BY <1>1, AppliedFacts
<1>5. CASE UpgradeProject
  <2>1. disk' \in Merged(a)
    BY <1>5 DEF UpgradeProject
  <2>2. disk' \in [Files -> Contents] /\ \A f \in Files \ {File(Config)} : disk'[f] = a[f]
    BY <1>1, <1>4, <2>1, MergedFacts
  <2> QED
    BY <1>1, <1>2, <1>5, <2>2 DEF UpgradeProject
<1>6. CASE UpgradeKilled
  <2>1. crashes' \in 0..MaxCrashes /\ release' = release /\ edits' = edits
    BY <1>1, <1>6, UpgradeAssumption DEF UpgradeKilled
  <2>2. ASSUME NEW S, disk' \in CutShort(Applied(S \cap Copied, S \cap Disabled), S \cap Copied),
               manifest' = manifest, bypassed' = TRUE, record' \in {record, "torn"}
        PROVE  UInv'
    <3>1. disk' \in [Files -> Contents]
      BY <1>1, <2>2, AppliedFacts, CutShortFacts
    <3> QED
      BY <1>3, <2>1, <2>2, <3>1
  <2>3. ASSUME disk' \in {a} \cup {[d EXCEPT ![File(Config)] = Remnant] : d \in Merged(a)},
               record' = "whole", manifest' = Recorded, bypassed' = bypassed
        PROVE  UInv'
    <3>1. disk' \in [Files -> Contents] /\ \A f \in Files \ {File(Config)} : disk'[f] = a[f]
      <4>1. CASE disk' = a
        BY <1>4, <4>1
      <4>2. ASSUME NEW d \in Merged(a), disk' = [d EXCEPT ![File(Config)] = Remnant]
            PROVE  <3>1!:
        <5>1. d \in [Files -> Contents] /\ \A f \in Files \ {File(Config)} : d[f] = a[f]
          BY <1>1, <1>4, <4>2, MergedFacts
        <5> QED
          BY <1>1, <4>2, <5>1, ContentTypes
      <4> QED
        BY <2>3, <4>1, <4>2
    <3> QED
      BY <1>2, <2>1, <2>3, <3>1
  <2> QED
    BY <1>6, <2>2, <2>3 DEF UpgradeKilled
<1> QED
  BY <1>5, <1>6

LEMMA InstalledFacts ==
    ASSUME UpgradeTypeOK, NEW S
    PROVE  /\ Installed(S) \in [Files -> Contents]
           /\ \A f \in Files \cap S : Installed(S)[f].by \in {"init", "bundle"}
<1>1. release \in Releases /\ disk \in [Files -> Contents]
  BY DEF UpgradeTypeOK
<1>2. Pristine \in Contents /\ [by |-> "init", v |-> release] \in Contents /\ Pristine.by = "bundle"
  BY <1>1, ContentTypes
<1> QED
  BY <1>1, <1>2 DEF Installed

LEMMA Installations ==
    ASSUME UInv, InitProject \/ InitKilled
    PROVE  UInv'
<1>1. /\ UpgradeTypeOK /\ release \in Releases /\ record \in {"none", "torn", "whole"}
      /\ edits \in 0..MaxEdits /\ crashes \in 0..MaxCrashes /\ bypassed \in BOOLEAN
  BY DEF UInv, UpgradeTypeOK
<1>2. release' = release /\ edits' = edits /\ crashes' \in 0..MaxCrashes
  BY <1>1, UpgradeAssumption DEF InitProject, InitKilled
<1>3. ASSUME NEW S, disk' \in CutShort(Installed(S), S), record' = record, manifest' = manifest,
             bypassed' = TRUE
      PROVE  UInv'
  <2>1. disk' \in [Files -> Contents]
    BY <1>1, <1>3, InstalledFacts, CutShortFacts
  <2>2. UpgradeTypeOK'
    BY <1>1, <1>2, <1>3, <2>1 DEF UpgradeTypeOK
  <2> QED
    BY <1>3, <2>2 DEF UInv, Sourced, Recognized, Tracked
<1>4. CASE InitProject /\ record = "none"
  <2>1. PICK S : /\ S \subseteq Bundle /\ disk' = Installed(S) /\ record' = "whole"
                 /\ manifest' = [f \in S |-> Entry(disk'[f], f[1] \in Guardrails, "bundled")]
                 /\ bypassed' = bypassed
    <3>1. PICK overwrite \in BOOLEAN :
              /\ disk' = Installed(Installs(overwrite)) /\ record' = "whole"
              /\ manifest' = [f \in Installs(overwrite) |-> Entry(disk'[f], f[1] \in Guardrails, "bundled")]
              /\ bypassed' = (bypassed \/ record # "none")
      BY <1>4 DEF InitProject
    <3>2. Installs(overwrite) \subseteq Bundle /\ bypassed' = bypassed
      BY <1>1, <1>4, <3>1 DEF Installs
    <3> QED
      BY <3>1, <3>2
  <2>2. S \subseteq Files /\ \A f \in S : f[2] = 0
    BY <1>1, <2>1, AssetsAreFiles
  <2>3. disk' \in [Files -> Contents] /\ \A f \in S : disk'[f].by \in {"init", "bundle"}
    BY <1>1, <2>1, <2>2, InstalledFacts
  <2>4. \A f \in S : /\ manifest'[f] \in Entries /\ manifest'[f].sha = disk'[f]
                     /\ manifest'[f].source = "bundled"
    BY <2>1, <2>2, <2>3 DEF Entry, Entries
  <2>5. DOMAIN manifest' = S /\ Tracked' = S
    BY <2>1 DEF Tracked
  <2>6. UpgradeTypeOK'
    BY <1>1, <1>2, <2>1, <2>2, <2>3, <2>4, <2>5 DEF UpgradeTypeOK
  <2>7. Sourced' /\ Recognized'
    BY <2>2, <2>3, <2>4, <2>5 DEF Sourced, Recognized, UserMade
  <2> QED
    BY <2>6, <2>7 DEF UInv
<1>5. CASE InitProject /\ record # "none"
  BY <1>1, <1>3, <1>5 DEF InitProject, CutShort
<1>6. CASE InitKilled
  BY <1>3, <1>6 DEF InitKilled
<1> QED
  BY <1>4, <1>5, <1>6

-----------------------------------------------------------------------------
LEMMA UpgradeInitially == UpgradeInit => UInv
<1> SUFFICES ASSUME UpgradeInit PROVE UInv
  OBVIOUS
<1>1. release \in Releases /\ record = "none" /\ edits = 0 /\ crashes = 0 /\ bypassed = FALSE
  BY DEF UpgradeInit
<1>2. disk \in [Files -> Contents]
  <2>1. PICK own \in SUBSET (Assets \ {Config}) :
            disk = [f \in Files |-> IF f[1] \in own /\ f[2] = 0 THEN [by |-> "user", v |-> release] ELSE Absent]
    BY DEF UpgradeInit
  <2> QED
    BY <1>1, <2>1, ContentTypes
<1>3. DOMAIN manifest = {}
  BY DEF UpgradeInit
<1>4. UpgradeTypeOK
  <2>1. edits \in 0..MaxEdits /\ crashes \in 0..MaxCrashes
    BY <1>1, UpgradeAssumption
  <2>2. bypassed \in BOOLEAN /\ record \in {"none", "torn", "whole"}
    BY <1>1
  <2> QED
    BY <1>1, <1>2, <1>3, <2>1, <2>2 DEF UpgradeTypeOK
<1>5. Tracked = {}
  BY <1>1 DEF Tracked
<1> QED
  BY <1>4, <1>5 DEF UInv, Sourced, Recognized

LEMMA Markings ==
    ASSUME UInv, MarkOwned
    PROVE  UInv'
<1>1. /\ release' = release /\ disk' = disk /\ record' = record /\ crashes' = crashes
      /\ bypassed' = bypassed /\ edits' \in 0..MaxEdits
  BY UpgradeAssumption DEF UInv, UpgradeTypeOK, MarkOwned
<1>2. PICK f \in Tracked, owned \in BOOLEAN :
          /\ owned = TRUE \/ manifest[f].source # "user"
          /\ manifest' = [KeptEntries EXCEPT ![f].user_owned = owned]
  BY DEF MarkOwned
<1>3. /\ Tracked \subseteq Files /\ record = "whole" /\ DOMAIN manifest = Tracked
      /\ \A g \in Tracked : manifest[g] \in Entries
  BY <1>2 DEF UInv, UpgradeTypeOK, Tracked
<1> PICK e, o : e = manifest[f] /\ o = [e EXCEPT !.user_owned = owned]
  OBVIOUS
<1>4. o = [sha |-> e.sha, user_owned |-> owned, source |-> e.source] /\ e \in Entries /\ o \in Entries
  BY <1>3 DEF Entries
<1>5. manifest' = [g \in Tracked |-> IF g = f THEN o ELSE manifest[g]]
  BY <1>2 DEF KeptEntries
<1>6. DOMAIN manifest' = Tracked /\ Tracked' = Tracked
  BY <1>1, <1>3, <1>5 DEF Tracked
<1>7. \A g \in Tracked : /\ manifest'[g] \in Entries /\ manifest'[g].sha = manifest[g].sha
                         /\ manifest'[g].source = manifest[g].source
                         /\ g # f => manifest'[g] = manifest[g]
  BY <1>3, <1>4, <1>5
<1>8. manifest'[f].source = "user" => manifest'[f].user_owned = TRUE
  BY <1>2, <1>4, <1>5
<1>9. UpgradeTypeOK'
  BY <1>1, <1>3, <1>6, <1>7 DEF UInv, UpgradeTypeOK
<1>10. Sourced'
  BY <1>6, <1>7, <1>8 DEF UInv, Sourced
<1>11. Recognized'
  <2>1. File(Config)' = File(Config)
    BY DEF File
  <2> QED
    BY <1>1, <1>6, <1>7, <2>1 DEF UInv, Recognized
<1> QED
  BY <1>9, <1>10, <1>11 DEF UInv

LEMMA Editing ==
    ASSUME UInv, UserEdits
    PROVE  UInv'
<1>1. /\ release' = release /\ record' = record /\ manifest' = manifest /\ crashes' = crashes
      /\ bypassed' = bypassed /\ edits' \in 0..MaxEdits /\ disk \in [Files -> Contents] /\ release \in Releases
  BY UpgradeAssumption DEF UInv, UpgradeTypeOK, UserEdits
<1>2. PICK f \in Files :
          \/ disk' = [disk EXCEPT ![f] = [by |-> "user", v |-> release]]
          \/ disk[f] # Absent /\ disk' = [disk EXCEPT ![f].by = "user"]
          \/ disk' = [disk EXCEPT ![f] = Absent]
  BY DEF UserEdits
<1> PICK c, o : c = disk[f] /\ o = [c EXCEPT !.by = "user"]
  OBVIOUS
<1>3. disk[f] # Absent => o \in Contents /\ o.by = "user"
  <2> SUFFICES ASSUME disk[f] # Absent PROVE o \in Contents /\ o.by = "user"
    OBVIOUS
  <2>1. c = [by |-> c.by, v |-> c.v] /\ c.v \in {0} \cup Releases
    BY <1>1, ContentTypes
  <2>2. o = [by |-> "user", v |-> c.v]
    BY <2>1
  <2> QED
    BY <2>1, <2>2 DEF Contents
<1>4. PICK x \in Contents : (x = Absent \/ x.by = "user") /\ disk' = [disk EXCEPT ![f] = x]
  BY <1>1, <1>2, <1>3, ContentTypes
<1>5. disk' \in [Files -> Contents]
  BY <1>1, <1>4
<1>6. \A g \in Files : disk'[g] = disk[g] \/ disk'[g] = Absent \/ disk'[g].by = "user"
  BY <1>1, <1>4
<1>7. Tracked' = Tracked /\ Tracked \subseteq Files /\ File(Config)' = File(Config)
  BY <1>1 DEF Tracked, UInv, UpgradeTypeOK, File
<1>8. UpgradeTypeOK'
  BY <1>1, <1>5 DEF UInv, UpgradeTypeOK
<1>9. Sourced' /\ Recognized'
  BY <1>1, <1>6, <1>7 DEF UInv, Sourced, Recognized, Absent
<1> QED
  BY <1>8, <1>9 DEF UInv

LEMMA UpgradeSteps == UInv /\ [UpgradeNext]_upgradeVars => UInv'
<1> SUFFICES ASSUME UInv, [UpgradeNext]_upgradeVars PROVE UInv'
  OBVIOUS
<1>1. CASE InitProject \/ InitKilled
  BY <1>1, Installations
<1>2. CASE UpgradeProject \/ UpgradeKilled
  BY <1>2, Upgrades
<1>3. CASE MarkOwned
  BY <1>3, Markings
<1>4. CASE UserEdits
  BY <1>4, Editing
<1>5. CASE NewRelease
  BY <1>5 DEF NewRelease, UInv, UpgradeTypeOK, Sourced, Recognized, Tracked, File, Absent
<1>6. CASE UNCHANGED upgradeVars
  BY <1>6 DEF upgradeVars, UInv, UpgradeTypeOK, Sourced, Recognized, Tracked, File, Absent
<1> QED
  BY <1>1, <1>2, <1>3, <1>4, <1>5, <1>6 DEF UpgradeNext

LEMMA UpgradeInvariant == UpgradeSpec => []UInv
  BY UpgradeInitially, UpgradeSteps, PTL DEF UpgradeSpec

(* The manifest, its entries and the files on disk have their types,       *)
(* whatever commands were killed.                                          *)
THEOREM UpgradeTypeCorrect == UpgradeSpec => []UpgradeTypeOK
<1>1. UInv => UpgradeTypeOK
  BY DEF UInv
<1> QED
  BY <1>1, UpgradeInvariant, PTL

(* No upgrade, complete or killed at any point, loses a text of the user's *)
(* that stands where the manifest knows of an asset; of the config it      *)
(* keeps the settings, unless it is killed while it writes the file anew.  *)
THEOREM EditsKept == UpgradeSpec => TrackedEditsKept
<1> DEFINE Kept(f) ==
        disk[f].by \in UserMade /\ f[2] = 0 =>
            \/ disk'[f] = disk[f]
            \/ \E n \in 1..MaxSuffix : disk'[<<f[1], n>>] = disk[f]
            \/ f = File(Config) /\ (disk'[f].by = "settings" \/ (UpgradeKilled /\ disk'[f] = Remnant))
            \/ UserEdits \/ Initializing
<1>1. UInv /\ [UpgradeNext]_upgradeVars => [\A f \in Tracked : Kept(f)]_upgradeVars
  <2> SUFFICES ASSUME UInv, UpgradeNext, NEW f \in Tracked, disk[f].by \in UserMade, f[2] = 0,
                      ~UserEdits, ~Initializing
               PROVE  \/ disk'[f] = disk[f]
                      \/ \E n \in 1..MaxSuffix : disk'[<<f[1], n>>] = disk[f]
                      \/ /\ f = File(Config)
                         /\ disk'[f].by = "settings" \/ (UpgradeKilled /\ disk'[f] = Remnant)
    OBVIOUS
  <2>1. f \in Files /\ release \in Releases /\ UpgradeTypeOK /\ Sourced
    BY DEF UInv, UpgradeTypeOK, Tracked
  <2>2. \A n \in 1..MaxSuffix : <<f[1], n>> \in Files /\ <<f[1], n>> # File(Config) /\ <<f[1], n>> \notin Bundle
    BY <2>1, AFile, AssetsAreFiles, UpgradeAssumption DEF File
  <2>3. Copied \subseteq Bundle /\ File(Config) \in Files
    BY <2>1, Decided, AssetsAreFiles
  <2> PICK a : a = Applied(Copied, Disabled)
    OBVIOUS
  <2>4. a \in [Files -> Contents] /\ KeptIn(a, f)
    BY <2>1, AppliedFacts, KeptByUpgrade
  <2>5. ASSUME NEW d, \A g \in Files \ {File(Config)} : d[g] = a[g], f # File(Config)
        PROVE  KeptIn(d, f)
    BY <2>1, <2>2, <2>4, <2>5 DEF KeptIn
  <2>6. f = File(Config) => a[f] = disk[f]
    <3>1. Config \in Shipped[release]
      BY <2>1, UpgradeAssumption
    <3>2. f = File(Config) => f \in Bundle
      BY <3>1 DEF Bundle
    <3>3. f \in Bundle => f \notin Disabled
      BY <2>1, Decided
    <3> QED
      BY <2>1, <3>2, <3>3, KeptByUpgrade, AppliedFacts, CarriedPlain
  <2>7. CASE MarkOwned \/ NewRelease
    BY <2>7 DEF MarkOwned, NewRelease
  <2>8. CASE UpgradeProject
    <3>1. disk' \in Merged(a)
      BY <2>8 DEF UpgradeProject
    <3> QED
      BY <2>1, <2>3, <2>4, <2>5, <2>6, <3>1, MergedFacts DEF KeptIn
  <2>9. CASE UpgradeKilled
    <3>1. ASSUME NEW S, disk' \in CutShort(Applied(S \cap Copied, S \cap Disabled), S \cap Copied)
          PROVE  KeptIn(disk', f)
      <4> PICK d : d = Applied(S \cap Copied, S \cap Disabled)
        OBVIOUS
      <4>0. PICK C, D : C = S \cap Copied /\ D = S \cap Disabled
        OBVIOUS
      <4>1. d \in [Files -> Contents] /\ f \notin C
            /\ KeptIn(d, f)
        <5>1. C \in SUBSET Copied /\ D \in SUBSET Disabled /\ d = Applied(C, D)
          BY <4>0
        <5>2. d \in [Files -> Contents]
          BY <2>1, <5>1, AppliedFacts
        <5> QED
          BY <2>1, <5>1, <5>2, KeptByUpgrade
      <4>2. disk' \in CutShort(d, C)
        BY <3>1, <4>0
      <4>3. \A g \in Files \ C : disk'[g] = d[g]
        BY <4>1, <4>2, ContentTypes DEF CutShort
      <4> QED
        BY <2>1, <2>2, <2>3, <4>0, <4>1, <4>3 DEF KeptIn
    <3>2. ASSUME disk' \in {a} \cup {[d EXCEPT ![File(Config)] = Remnant] : d \in Merged(a)}
          PROVE  KeptIn(disk', f) \/ (f = File(Config) /\ disk'[f] = Remnant)
      <4>1. CASE disk' = a
        BY <2>4, <4>1
      <4>2. ASSUME NEW d \in Merged(a), disk' = [d EXCEPT ![File(Config)] = Remnant]
            PROVE  /\ \A g \in Files \ {File(Config)} : disk'[g] = a[g]
                   /\ disk'[File(Config)] = Remnant
        <5>1. d \in [Files -> Contents] /\ \A g \in Files \ {File(Config)} : d[g] = a[g]
          BY <2>1, <2>4, <4>2, MergedFacts
        <5> QED
          BY <2>3, <4>2, <5>1
      <4> QED
        BY <2>5, <3>2, <4>1, <4>2
    <3> QED
      BY <2>9, <3>1, <3>2 DEF UpgradeKilled, KeptIn
  <2> QED
    BY <2>7, <2>8, <2>9 DEF UpgradeNext, Initializing
<1> QED
  BY <1>1, UpgradeInvariant, PTL DEF UpgradeSpec, TrackedEditsKept

(* Unless a command was killed or takt init ran over a manifest, what an   *)
(* upgrade leaves of the bundle is of the release, or the user's.          *)
THEOREM BroughtUpToDate == UpgradeSpec => UpToDate
<1> DEFINE Brought == (~bypassed /\ upgradeVars' # upgradeVars /\ UpgradeProject) =>
        \A f \in Bundle \ {File(Config)} :
            disk'[f] = Pristine \/ disk'[f].by = "user" \/ manifest'[f].user_owned
<1>1. UInv => [Brought]_upgradeVars
  <2> SUFFICES ASSUME UInv, ~bypassed, UpgradeProject, NEW f \in Bundle, f # File(Config)
               PROVE  disk'[f] = Pristine \/ disk'[f].by = "user" \/ manifest'[f].user_owned
    OBVIOUS
  <2>1. UpgradeTypeOK /\ release \in Releases /\ disk \in [Files -> Contents]
    BY DEF UInv, UpgradeTypeOK
  <2>2. f \in Files /\ f[2] = 0
    BY <2>1, AssetsAreFiles
  <2>3. Applied(Copied, Disabled) \in [Files -> Contents]
    BY <2>1, AppliedFacts
  <2>4. disk'[f] = Applied(Copied, Disabled)[f] /\ manifest' = Recorded
    <3>1. disk' \in Merged(Applied(Copied, Disabled)) /\ manifest' = Recorded
      BY DEF UpgradeProject
    <3> QED
      BY <2>1, <2>2, <2>3, <3>1, MergedFacts
  <2>5. CASE f \in Copied
    BY <2>1, <2>2, <2>4, <2>5, AppliedFacts
  <2>6. CASE f \notin Copied
    <3>1. f \in Tracked /\ f \notin Disabled /\ f \notin Added
      BY <2>1, <2>6, Decided
    <3>2. manifest'[f] = manifest[f] /\ disk'[f] = disk[f]
      BY <2>1, <2>2, <2>4, <2>6, <3>1, RecordedFacts, AppliedFacts, CarriedPlain
    <3>3. manifest[f] \in Entries
      BY <2>1, <3>1 DEF UpgradeTypeOK, Tracked
    <3>4. \/ manifest[f].user_owned = TRUE \/ disk[f] = Pristine
          \/ disk[f] # Absent /\ disk[f] # manifest[f].sha
      BY <2>1, <2>6, <3>1, Decided
    <3>5. manifest[f].user_owned = TRUE \/ manifest[f].source = "bundled"
      BY <3>1, <3>3 DEF UInv, Sourced, Entries
    <3>6. manifest[f].source = "bundled" =>
              disk[f] = Absent \/ disk[f].by = "user" \/ disk[f] = manifest[f].sha
      BY <3>1 DEF UInv, Recognized
    <3> QED
      BY <3>2, <3>4, <3>5, <3>6
  <2> QED
    BY <2>5, <2>6
<1> QED
  BY <1>1, UpgradeInvariant, PTL DEF UpgradeSpec, UpToDate

-----------------------------------------------------------------------------
(* The watch command.  What was put into the queue is what the main thread *)
(* took and what still waits.                                              *)
Put == shown \o queue

(* The lines of p in the sequence out are the log from b to t.             *)
Own(p, out) == {i \in DOMAIN out : out[i].path = p /\ out[i] # Sentinel(p)}
Lossless(p, out, b, t) ==
    /\ \A n \in b + 1..t : \E i \in Own(p, out) : n \in out[i].from + 1..out[i].to
    /\ \A i \in Own(p, out) : b <= out[i].from /\ out[i].from < out[i].to /\ out[i].to <= t
    /\ \A i, j \in Own(p, out) : i < j => out[i].to <= out[j].from

(* A thread holds the ends of the lines between what it put and what it    *)
(* read, and puts nothing before it has read what it replays.              *)
Holds(p) ==
    /\ watched = {} => at[p] = "gone"
    /\ watched = {} \/ at[p] \in {"wait", "replay"} => put[p] = base[p]
    /\ watched = {} \/ at[p] \in {"wait", "live"} => pending[p] = {}
    /\ pending[p] \subseteq put[p] + 1..pos[p]
    /\ put[p] < pos[p] => pos[p] \in pending[p]

WatchInv == WatchTypeOK /\ \A p \in Projects : Holds(p) /\ Lossless(p, Put, base[p], put[p])

(* An item that is put comes after all that were.                          *)
LEMMA PutAppend ==
    ASSUME queue \in Seq(Items), shown \in Seq(Items), NEW x \in Items
    PROVE  /\ Put \in Seq(Items) /\ shown \o Append(queue, x) = Append(Put, x)
<1>1. Put \in Seq(Items)
  BY ConcatProperties DEF Put
<1>2. <<x>> \in Seq(Items)
  OBVIOUS
<1>3. Append(queue, x) = queue \o <<x>> /\ Append(Put, x) = Put \o <<x>>
  BY <1>1, AppendIsConcat
<1>4. shown \o (queue \o <<x>>) = (shown \o queue) \o <<x>>
  BY <1>2, ConcatAssociative
<1> QED
  BY <1>1, <1>3, <1>4 DEF Put

(* What the main thread takes stays put.                                   *)
LEMMA PutTaken ==
    ASSUME queue \in Seq(Items), shown \in Seq(Items), queue # <<>>
    PROVE  /\ Append(shown, Head(queue)) \o Tail(queue) = Put
           /\ Append(shown, Head(queue)) \in Seq(Items) /\ Tail(queue) \in Seq(Items)
<1> DEFINE x == Head(queue)
           rest == Tail(queue)
<1>1. x \in Items /\ rest \in Seq(Items) /\ <<x>> \in Seq(Items)
  BY HeadTailProperties
<1>2. queue = <<x>> \o rest
  <2>1. /\ Len(queue) \in Nat /\ Len(queue) >= 1 /\ Len(rest) = Len(queue) - 1 /\ x = queue[1]
        /\ \A i \in 1..Len(rest) : rest[i] = queue[i + 1]
    BY EmptySeq, HeadTailProperties
  <2> HIDE DEF x, rest
  <2>2. /\ <<x>> \o rest \in Seq(Items) /\ Len(<<x>> \o rest) = Len(queue)
        /\ \A i \in 1..Len(queue) : (<<x>> \o rest)[i] = IF i <= 1 THEN <<x>>[i] ELSE rest[i - 1]
    <3>1. Len(<<x>>) = 1
      OBVIOUS
    <3> QED
      BY <1>1, <2>1, <3>1, ConcatProperties
  <2>3. ASSUME NEW i \in 1..Len(queue) PROVE queue[i] = (<<x>> \o rest)[i]
    <3>1. CASE i = 1
      BY <2>1, <2>2, <3>1
    <3>2. CASE i # 1
      <4>1. i - 1 \in 1..Len(rest) /\ i - 1 + 1 = i /\ ~(i <= 1)
        BY <2>1, <3>2
      <4> QED
        BY <2>1, <2>2, <4>1
    <3> QED
      BY <3>1, <3>2
  <2> QED
    BY <2>2, <2>3, SeqEqual
<1>3. Append(shown, x) = shown \o <<x>> /\ Append(shown, x) \in Seq(Items)
  BY <1>1, AppendIsConcat, AppendProperties
<1> HIDE DEF x, rest
<1>4. (shown \o <<x>>) \o rest = shown \o (<<x>> \o rest)
  BY <1>1, ConcatAssociative
<1>5. Append(shown, x) \o rest = Put
  BY <1>2, <1>3, <1>4 DEF Put
<1> QED
  BY <1>1, <1>3, <1>5 DEF x, rest

(* The lines of p with one more item.                                      *)
LEMMA OwnAppend ==
    ASSUME NEW out \in Seq(Items), NEW x \in Items, NEW p
    PROVE  /\ \A i \in Own(p, out) : Append(out, x)[i] = out[i] /\ i \in 1..Len(out)
           /\ Append(out, x)[Len(out) + 1] = x /\ Len(out) \in Nat
           /\ Own(p, Append(out, x)) = Own(p, out) \cup
                  (IF x.path = p /\ x # Sentinel(p) THEN {Len(out) + 1} ELSE {})
<1>1. /\ Len(out) \in Nat /\ DOMAIN out = 1..Len(out) /\ DOMAIN Append(out, x) = 1..(Len(out) + 1)
      /\ \A i \in 1..Len(out) : Append(out, x)[i] = out[i]
      /\ Append(out, x)[Len(out) + 1] = x
  BY AppendProperties, LenProperties
<1>2. 1..(Len(out) + 1) = 1..Len(out) \cup {Len(out) + 1} /\ Len(out) + 1 \notin 1..Len(out)
  BY <1>1
<1> QED
  BY <1>1, <1>2 DEF Own

(* A line that goes on where the lines of p end, a line of another, a      *)
(* sentinel, and a thread that begins elsewhere before it put a line.      *)
LEMMA LineGoesOn ==
    ASSUME NEW out \in Seq(Items), NEW p \in Projects, NEW b \in Nat, NEW t \in Nat, NEW e \in Nat,
           b <= t, t < e, Lossless(p, out, b, t)
    PROVE  Lossless(p, Append(out, Line(p, t, e)), b, e)
<1> DEFINE x == Line(p, t, e)
           more == Append(out, x)
           last == Len(out) + 1
<1>1. x \in Items /\ x.path = p /\ x.from = t /\ x.to = e /\ x # Sentinel(p)
  <2>1. x \in Items /\ x.path = p /\ x.from = t /\ x.to = e
    BY DEF Line, Items
  <2>2. Sentinel(p).to = 0
    BY DEF Sentinel, Line
  <2> QED
    BY <2>1, <2>2
<1> HIDE DEF x
<1>2. /\ \A i \in Own(p, out) : more[i] = out[i] /\ i \in 1..Len(out)
      /\ more[last] = x /\ Len(out) \in Nat /\ Own(p, more) = Own(p, out) \cup {last}
  BY <1>1, OwnAppend
<1>3. \A i \in Own(p, out) : out[i].from \in Nat /\ out[i].to \in Nat
  <2>1. \A i \in Own(p, out) : out[i] \in Items
    BY DEF Own
  <2> QED
    BY <2>1 DEF Items
<1> HIDE DEF more
<1>4. ASSUME NEW n \in b + 1..e PROVE \E i \in Own(p, more) : n \in more[i].from + 1..more[i].to
  <2>1. CASE n <= t
    <3>1. n \in b + 1..t
      BY <2>1
    <3>2. PICK i \in Own(p, out) : n \in out[i].from + 1..out[i].to
      BY <3>1 DEF Lossless
    <3> QED
      BY <1>2, <3>2
  <2>2. CASE n > t
    <3>1. n \in t + 1..e
      BY <2>2
    <3> QED
      BY <1>1, <1>2, <3>1
  <2> QED
    BY <2>1, <2>2
<1>5. ASSUME NEW i \in Own(p, more) PROVE b <= more[i].from /\ more[i].from < more[i].to /\ more[i].to <= e
  <2>1. CASE i = last
    BY <1>1, <1>2, <2>1
  <2>2. CASE i \in Own(p, out)
    <3>1. b <= out[i].from /\ out[i].from < out[i].to /\ out[i].to <= t
      BY <2>2 DEF Lossless
    <3> QED
      BY <1>2, <1>3, <2>2, <3>1
  <2> QED
    BY <1>2, <2>1, <2>2
<1>6. ASSUME NEW i \in Own(p, more), NEW j \in Own(p, more), i < j PROVE more[i].to <= more[j].from
  <2>1. i \in Own(p, out)
    BY <1>2, <1>6
  <2>2. CASE j = last
    <3>1. out[i].to <= t
      BY <2>1 DEF Lossless
    <3> QED
      BY <1>1, <1>2, <2>1, <2>2, <3>1
  <2>3. CASE j \in Own(p, out)
    BY <1>2, <1>6, <2>1, <2>3 DEF Lossless
  <2> QED
    BY <1>2, <2>2, <2>3
<1>7. Lossless(p, more, b, e)
  BY <1>4, <1>5, <1>6 DEF Lossless
<1> QED
  BY <1>7 DEF more, x

LEMMA OthersStay ==
    ASSUME NEW out \in Seq(Items), NEW x \in Items, NEW p \in Projects, NEW b, NEW t,
           x.path # p \/ x = Sentinel(p), Lossless(p, out, b, t)
    PROVE  Lossless(p, Append(out, x), b, t)
<1> DEFINE more == Append(out, x)
<1>1. /\ \A i \in Own(p, out) : more[i] = out[i]
      /\ Own(p, more) = Own(p, out) \cup (IF x.path = p /\ x # Sentinel(p) THEN {Len(out) + 1} ELSE {})
  BY OwnAppend
<1> HIDE DEF more
<1>2. Own(p, more) = Own(p, out)
  BY <1>1
<1>3. Lossless(p, more, b, t)
  BY <1>1, <1>2 DEF Lossless
<1> QED
  BY <1>3 DEF more

LEMMA BeginsElsewhere ==
    ASSUME NEW out \in Seq(Items), NEW p \in Projects, NEW b \in Nat, NEW e \in Nat, Lossless(p, out, b, b)
    PROVE  Lossless(p, out, e, e)
<1>1. \A i \in Own(p, out) : out[i] \in Items
  BY DEF Own
<1>2. Own(p, out) = {}
  BY <1>1 DEF Lossless, Items
<1>3. e + 1..e = {}
  OBVIOUS
<1> QED
  BY <1>2, <1>3 DEF Lossless

LEMMA WatchStarts ==
    WatchInit => WatchInv
<1> SUFFICES ASSUME WatchInit PROVE WatchInv
  OBVIOUS
<1>1. WatchTypeOK
  <2>1. ASSUME NEW p \in Projects PROVE log[p] \in Seq(Pieces) /\ Len(log[p]) \in Nat
    <3>1. log[p] = <<>> \/ log[p] = <<"whole">>
      BY DEF WatchInit
    <3>2. "whole" \in Pieces /\ <<>> \in Seq(Pieces)
      BY EmptySeq DEF Pieces
    <3>3. <<"whole">> \in Seq(Pieces)
      BY <3>2
    <3>4. log[p] \in Seq(Pieces)
      BY <3>1, <3>2, <3>3
    <3> QED
      BY <3>4, LenProperties
  <2>2. log = [p \in Projects |-> log[p]]
    BY DEF WatchInit
  <2>3. log \in [Projects -> Seq(Pieces)]
    BY <2>1, <2>2
  <2>4. queue \in Seq(Items) /\ shown \in Seq(Items)
    BY EmptySeq DEF WatchInit
  <2>5. \A p \in Projects : base[p] = 0 /\ put[p] = 0 /\ pos[p] = 0
    BY DEF WatchInit
  <2>6. \A p \in Projects : base[p] <= put[p] /\ put[p] <= pos[p] /\ pos[p] <= Len(log[p])
    BY <2>1, <2>5
  <2>7. pending \in [Projects -> SUBSET Nat] /\ base \in [Projects -> Nat] /\ put \in [Projects -> Nat] /\ pos \in [Projects -> Nat]
    BY DEF WatchInit
  <2> QED
    BY <2>3, <2>4, <2>6, <2>7 DEF WatchInit, WatchTypeOK
<1>2. Put = <<>>
  BY DEF WatchInit, Put
<1>3. \A p \in Projects : Own(p, <<>>) = {}
  BY DEF Own
<1>4. \A p \in Projects : Holds(p) /\ Lossless(p, Put, base[p], put[p])
  BY <1>2, <1>3 DEF WatchInit, Holds, Lossless
<1> QED
  BY <1>1, <1>4 DEF WatchInv

(* A step that puts nothing and moves no thread.                           *)
LEMMA NothingPut ==
    ASSUME WatchInv, WatchTypeOK', Put' = Put, base' = base, put' = put, \A p \in Projects : Holds(p)'
    PROVE  WatchInv'
  BY DEF WatchInv

(* A step of one thread that puts x, or none.                              *)
LEMMA OnePut ==
    ASSUME WatchInv, WatchTypeOK', NEW p \in Projects, NEW x \in Items, x.path = p,
           shown' = shown, queue' = Append(queue, x),
           base' = base, \A q \in Projects \ {p} : put'[q] = put[q],
           \A q \in Projects : Holds(q)',
           \/ x = Sentinel(p) /\ put'[p] = put[p]
           \/ x = Line(p, put[p], put'[p]) /\ put[p] < put'[p]
    PROVE  WatchInv'
<1>1. Put \in Seq(Items) /\ Put' = Append(Put, x)
  <2>1. queue \in Seq(Items) /\ shown \in Seq(Items)
    BY DEF WatchInv, WatchTypeOK
  <2>2. Put \in Seq(Items) /\ shown \o Append(queue, x) = Append(Put, x)
    BY <2>1, PutAppend
  <2> QED
    BY <2>2 DEF Put
<1>2. ASSUME NEW q \in Projects PROVE Lossless(q, Append(Put, x), base[q], put'[q])
  <2>1. Lossless(q, Put, base[q], put[q]) /\ base[q] \in Nat /\ put[q] \in Nat /\ base[q] <= put[q]
    BY DEF WatchInv, WatchTypeOK
  <2>2. CASE q # p
    <3>1. put'[q] = put[q]
      BY <2>2
    <3> QED
      BY <1>1, <2>1, <2>2, <3>1, OthersStay
  <2>3. CASE q = p /\ x = Sentinel(p) /\ put'[p] = put[p]
    BY <1>1, <2>1, <2>3, OthersStay
  <2>4. CASE q = p /\ x = Line(p, put[p], put'[p]) /\ put[p] < put'[p]
    <3>1. put'[q] \in Nat
      BY DEF WatchTypeOK
    <3> QED
      BY <1>1, <2>1, <2>4, <3>1, LineGoesOn
  <2> QED
    BY <2>2, <2>3, <2>4
<1> QED
  BY <1>1, <1>2 DEF WatchInv

(* A thread that begins elsewhere, before it put a line.                   *)
LEMMA OneBegins ==
    ASSUME WatchInv, WatchTypeOK', NEW p \in Projects, NEW e \in Nat, put[p] = base[p], Put' = Put,
           base' = [base EXCEPT ![p] = e], put' = [put EXCEPT ![p] = e],
           \A q \in Projects : Holds(q)'
    PROVE  WatchInv'
<1>1. Put \in Seq(Items) /\ base \in [Projects -> Nat] /\ put \in [Projects -> Nat]
  BY ConcatProperties DEF WatchInv, WatchTypeOK, Put
<1>2. ASSUME NEW q \in Projects PROVE Lossless(q, Put, base'[q], put'[q])
  <2>1. Lossless(q, Put, base[q], put[q])
    BY DEF WatchInv
  <2>2. CASE q # p
    BY <1>1, <2>1, <2>2
  <2>3. CASE q = p
    <3>1. base'[q] = e /\ put'[q] = e /\ base[p] \in Nat
      BY <1>1, <2>3
    <3> QED
      BY <1>1, <2>1, <2>3, <3>1, BeginsElsewhere
  <2> QED
    BY <2>2, <2>3
<1> QED
  BY <1>2 DEF WatchInv

(* The writer.                                                             *)
LEMMA LogGrows ==
    ASSUME WatchInv, NEW p \in Projects, RecordEvent(p)
    PROVE  WatchInv'
<1>1. PICK piece \in Pieces : log' = [log EXCEPT ![p] = Append(log[p], piece)]
  BY DEF RecordEvent, Pieces
<1>2. UNCHANGED <<watched, at, pos, pending, base, put, queue, shown, stop>>
  BY DEF RecordEvent
<1>3. log \in [Projects -> Seq(Pieces)] /\ \A q \in Projects : pos[q] <= Len(log[q]) /\ pos[q] \in Nat
  BY DEF WatchInv, WatchTypeOK
<1>4. log' \in [Projects -> Seq(Pieces)]
  <2>1. Append(log[p], piece) \in Seq(Pieces)
    BY <1>3, AppendProperties
  <2> QED
    BY <1>1, <1>3, <2>1
<1>5. ASSUME NEW q \in Projects PROVE pos[q] <= Len(log'[q])
  <2>1. CASE q = p
    <3>1. log'[q] = Append(log[q], piece) /\ log[q] \in Seq(Pieces)
      BY <1>1, <1>3, <2>1
    <3>2. Len(log'[q]) = Len(log[q]) + 1 /\ Len(log[q]) \in Nat
      BY <3>1, AppendProperties, LenProperties
    <3> QED
      BY <1>3, <3>2
  <2>2. CASE q # p
    BY <1>1, <1>3, <2>2
  <2> QED
    BY <2>1, <2>2
<1>6. WatchTypeOK'
  BY <1>2, <1>4, <1>5 DEF WatchInv, WatchTypeOK
<1>7. Put' = Put /\ \A q \in Projects : Holds(q)'
  BY <1>2 DEF WatchInv, Holds, Put
<1> QED
  BY <1>2, <1>6, <1>7, NothingPut

(* The main thread.                                                        *)
LEMMA MainThread ==
    ASSUME WatchInv, StartWatch \/ Show \/ StopWatch
    PROVE  WatchInv'
<1>1. CASE StartWatch
  <2>1. /\ watched = {} /\ watched' \in SUBSET Projects
        /\ at' = [p \in Projects |-> IF p \in watched' THEN "wait" ELSE "gone"]
        /\ UNCHANGED <<log, pos, pending, base, put, queue, shown, stop>> /\ watched' # {}
    BY <1>1 DEF StartWatch
  <2>2. WatchTypeOK'
    BY <2>1 DEF WatchInv, WatchTypeOK
  <2>3. \A p \in Projects : Holds(p)'
    BY <2>1 DEF WatchInv, Holds
  <2>4. Put' = Put
    BY <2>1 DEF Put
  <2> QED
    BY <2>1, <2>2, <2>3, <2>4, NothingPut
<1>2. CASE Show
  <2>1. /\ queue # <<>> /\ queue' = Tail(queue) /\ shown' = Append(shown, Head(queue))
        /\ UNCHANGED <<log, watched, at, pos, pending, base, put, stop>>
    BY <1>2 DEF Show
  <2>2. queue' \in Seq(Items) /\ shown' \in Seq(Items) /\ Put' = Put
    <3>1. queue \in Seq(Items) /\ shown \in Seq(Items)
      BY DEF WatchInv, WatchTypeOK
    <3>2. /\ shown' \o queue' = Put /\ queue' \in Seq(Items) /\ shown' \in Seq(Items)
      BY <2>1, <3>1, PutTaken
    <3> QED
      BY <3>2 DEF Put
  <2>3. WatchTypeOK'
    BY <2>1, <2>2 DEF WatchInv, WatchTypeOK
  <2>4. \A p \in Projects : Holds(p)'
    BY <2>1 DEF WatchInv, Holds
  <2> QED
    BY <2>1, <2>2, <2>3, <2>4, NothingPut
<1>3. CASE StopWatch
  <2>1. stop' = TRUE /\ UNCHANGED <<log, watched, at, pos, pending, base, put, queue, shown>>
    BY <1>3 DEF StopWatch
  <2>2. WatchTypeOK' /\ Put' = Put /\ \A p \in Projects : Holds(p)'
    BY <2>1 DEF WatchInv, WatchTypeOK, Holds, Put
  <2> QED
    BY <2>1, <2>2, NothingPut
<1> QED
  BY <1>1, <1>2, <1>3

(* What a thread knows of itself.                                          *)
LEMMA OfThread ==
    ASSUME WatchInv
    PROVE  /\ log \in [Projects -> Seq(Pieces)] /\ at \in [Projects -> {"wait", "replay", "emit", "live", "gone"}]
           /\ pos \in [Projects -> Nat] /\ base \in [Projects -> Nat] /\ put \in [Projects -> Nat]
           /\ pending \in [Projects -> SUBSET Nat]
           /\ \A p \in Projects : /\ base[p] <= put[p] /\ put[p] <= pos[p] /\ pos[p] <= Len(log[p])
                                  /\ Len(log[p]) \in Nat /\ DOMAIN log[p] = 1..Len(log[p]) /\ Holds(p)
           /\ queue \in Seq(Items) /\ shown \in Seq(Items)
<1>1. \A p \in Projects : log[p] \in Seq(Pieces)
  BY DEF WatchInv, WatchTypeOK
<1>2. \A p \in Projects : Len(log[p]) \in Nat /\ DOMAIN log[p] = 1..Len(log[p])
  BY <1>1, LenProperties
<1> QED
  BY <1>2 DEF WatchInv, WatchTypeOK

(* A thread that follows the log has put all it read.                      *)
LEMMA AllPut ==
    ASSUME WatchInv, NEW p \in Projects, at[p] = "live"
    PROVE  put[p] = pos[p]
<1>1. Holds(p) /\ put[p] \in Nat /\ pos[p] \in Nat /\ put[p] <= pos[p]
  BY OfThread
<1>2. ~(put[p] < pos[p])
  BY <1>1 DEF Holds
<1> QED
  BY <1>1, <1>2

(* The threads.                                                            *)
LEMMA ThreadOpens ==
    ASSUME WatchInv, NEW p \in Projects, OpenLog(p)
    PROVE  WatchInv'
<1>1. at[p] = "wait" /\ UNCHANGED <<log, watched, pending, queue, shown, stop>> /\ Put' = Put
  BY DEF OpenLog, Put
<1>2. watched # {} /\ put[p] = base[p] /\ pending[p] = {}
  BY <1>1 DEF WatchInv, Holds
<1>3. CASE at' = [at EXCEPT ![p] = "replay"] /\ UNCHANGED <<pos, base, put>>
  <2>1. WatchTypeOK'
    BY <1>1, <1>3 DEF WatchInv, WatchTypeOK
  <2>2. \A q \in Projects : Holds(q)'
    BY <1>1, <1>2, <1>3, OfThread DEF Holds
  <2> QED
    BY <1>1, <1>3, <2>1, <2>2, NothingPut
<1>4. CASE /\ at' = [at EXCEPT ![p] = "live"] /\ pos' = [pos EXCEPT ![p] = Len(log[p])]
           /\ base' = [base EXCEPT ![p] = Len(log[p])] /\ put' = [put EXCEPT ![p] = Len(log[p])]
  <2>1. Len(log[p]) \in Nat
    BY OfThread
  <2>2. WatchTypeOK'
    BY <1>1, <1>4, <2>1 DEF WatchInv, WatchTypeOK
  <2>3. \A q \in Projects : Holds(q)'
    BY <1>1, <1>2, <1>4, <2>1, OfThread DEF Holds
  <2> QED
    BY <1>1, <1>2, <1>4, <2>1, <2>2, <2>3, OneBegins
<1> QED
  BY <1>3, <1>4 DEF OpenLog

LEMMA ThreadReplays ==
    ASSUME WatchInv, NEW p \in Projects, ReplayLine(p)
    PROVE  WatchInv'
<1>1. at[p] = "replay" /\ UNCHANGED <<log, watched, at, queue, shown, stop>> /\ Put' = Put
  BY DEF ReplayLine, Put
<1>2. PICK e \in Nat :
        /\ pos[p] < e /\ e <= Len(log[p]) /\ pos' = [pos EXCEPT ![p] = e]
        /\ \/ pending' = [pending EXCEPT ![p] = pending[p] \cup {e}] /\ UNCHANGED <<base, put>>
           \/ /\ pending[p] = {} /\ UNCHANGED pending
              /\ base' = [base EXCEPT ![p] = e] /\ put' = [put EXCEPT ![p] = e]
  <2>1. PICK e \in DOMAIN log[p] :
        /\ ReadsTo(p, e) /\ pos' = [pos EXCEPT ![p] = e]
        /\ \/ pending' = [pending EXCEPT ![p] = pending[p] \cup {e}] /\ UNCHANGED <<base, put>>
           \/ /\ pending[p] = {} /\ UNCHANGED pending
              /\ base' = [base EXCEPT ![p] = e] /\ put' = [put EXCEPT ![p] = e]
    BY DEF ReplayLine
  <2>2. e \in Nat /\ pos[p] < e /\ e <= Len(log[p])
    BY <2>1, OfThread DEF ReadsTo
  <2> QED
    BY <2>1, <2>2
<1>3. watched # {} /\ put[p] = base[p]
  BY <1>1 DEF WatchInv, Holds
<1>4. \A q \in Projects : q # p => pos'[q] = pos[q] /\ pending'[q] = pending[q] /\ put'[q] = put[q] /\ base'[q] = base[q]
  BY <1>2, OfThread
<1>5. pos'[p] = e /\ pending'[p] \subseteq pending[p] \cup {e} /\ put'[p] <= e /\ base'[p] <= put'[p]
  BY <1>2, OfThread
<1>6. WatchTypeOK'
  <2>0. pos \in [Projects -> Nat] /\ base \in [Projects -> Nat] /\ put \in [Projects -> Nat] /\ pending \in [Projects -> SUBSET Nat]
    BY OfThread
  <2>1. pos' \in [Projects -> Nat] /\ base' \in [Projects -> Nat] /\ put' \in [Projects -> Nat] /\ pending' \in [Projects -> SUBSET Nat]
    <3>1. pos' \in [Projects -> Nat]
      BY <1>2, <2>0
    <3>2. base' \in [Projects -> Nat] /\ put' \in [Projects -> Nat]
      BY <1>2, <2>0
    <3>3. pending' \in [Projects -> SUBSET Nat]
      BY <1>2, <2>0
    <3> QED
      BY <3>1, <3>2, <3>3
  <2>2. \A q \in Projects : base'[q] <= put'[q] /\ put'[q] <= pos'[q] /\ pos'[q] <= Len(log[q])
    BY <1>2, <1>4, <1>5, OfThread
  <2> QED
    BY <1>1, <2>1, <2>2 DEF WatchInv, WatchTypeOK
<1>7. \A q \in Projects \ {p} : Holds(q)'
  BY <1>1, <1>4, OfThread DEF Holds
<1>8. CASE pending' = [pending EXCEPT ![p] = pending[p] \cup {e}] /\ UNCHANGED <<base, put>>
  <2>1. Holds(p)'
    <3>1. pending'[p] = pending[p] \cup {e} /\ pos'[p] = e /\ put'[p] = put[p] /\ base'[p] = base[p]
      BY <1>2, <1>8, OfThread
    <3>2. pending[p] \subseteq put[p] + 1..pos[p] /\ put[p] \in Nat /\ pos[p] \in Nat /\ put[p] <= pos[p]
      BY OfThread DEF Holds
    <3>3. pending'[p] \subseteq put[p] + 1..e
      BY <1>2, <3>1, <3>2
    <3> QED
      BY <1>1, <1>3, <3>1, <3>3 DEF Holds
  <2> QED
    BY <1>1, <1>6, <1>7, <1>8, <2>1, NothingPut
<1>9. CASE /\ pending[p] = {} /\ UNCHANGED pending
           /\ base' = [base EXCEPT ![p] = e] /\ put' = [put EXCEPT ![p] = e]
  <2>1. Holds(p)'
    <3>1. pending'[p] = {} /\ pos'[p] = e /\ put'[p] = e /\ base'[p] = e
      BY <1>2, <1>9, OfThread
    <3> QED
      BY <1>1, <1>3, <3>1 DEF Holds
  <2> QED
    BY <1>1, <1>3, <1>6, <1>7, <1>9, <2>1, OneBegins
<1> QED
  BY <1>2, <1>8, <1>9

LEMMA ThreadMoves ==
    ASSUME WatchInv, NEW p \in Projects, ReplayEnd(p) \/ GoLive(p)
    PROVE  WatchInv'
<1>1. /\ \/ at[p] = "replay" /\ at' = [at EXCEPT ![p] = "emit"]
         \/ at[p] = "emit" /\ pending[p] = {} /\ at' = [at EXCEPT ![p] = "live"]
      /\ UNCHANGED <<log, watched, pos, pending, base, put, queue, shown, stop>>
  BY DEF ReplayEnd, GoLive
<1>2. WatchTypeOK' /\ Put' = Put
  BY <1>1 DEF WatchInv, WatchTypeOK, Put
<1>3. \A q \in Projects : Holds(q)'
  BY <1>1, OfThread DEF Holds
<1> QED
  BY <1>1, <1>2, <1>3, NothingPut

LEMMA ThreadEmits ==
    ASSUME WatchInv, NEW p \in Projects, EmitPending(p)
    PROVE  WatchInv'
<1>1. PICK e \in pending[p] :
        /\ \A x \in pending[p] : e <= x
        /\ queue' = Append(queue, Line(p, put[p], e))
        /\ pending' = [pending EXCEPT ![p] = pending[p] \ {e}] /\ put' = [put EXCEPT ![p] = e]
  BY DEF EmitPending
<1>2. at[p] = "emit" /\ UNCHANGED <<log, watched, at, pos, base, shown, stop>>
  BY DEF EmitPending
<1>3. /\ pending[p] \subseteq put[p] + 1..pos[p] /\ put[p] \in Nat /\ pos[p] \in Nat /\ watched # {}
      /\ put[p] < pos[p] => pos[p] \in pending[p]
  BY <1>2, OfThread DEF Holds
<1>4. e \in Nat /\ put[p] < e /\ e <= pos[p]
  BY <1>3
<1> DEFINE x == Line(p, put[p], e)
<1>5. x \in Items /\ x.path = p
  BY <1>3, <1>4 DEF Line, Items
<1>6. put'[p] = e /\ pending'[p] = pending[p] \ {e} /\ \A q \in Projects \ {p} : put'[q] = put[q] /\ pending'[q] = pending[q]
  BY <1>1, OfThread
<1>7. WatchTypeOK'
  <2>1. queue' \in Seq(Items)
    BY <1>1, <1>5, OfThread, AppendProperties
  <2>2. put' \in [Projects -> Nat] /\ pending' \in [Projects -> SUBSET Nat]
    BY <1>1, <1>4, OfThread
  <2>3. ASSUME NEW q \in Projects PROVE base[q] <= put'[q] /\ put'[q] <= pos[q] /\ pos[q] <= Len(log[q])
    <3>1. base[q] \in Nat /\ put[q] \in Nat /\ base[q] <= put[q] /\ put[q] <= pos[q] /\ pos[q] <= Len(log[q])
      BY OfThread
    <3> QED
      BY <1>3, <1>4, <1>6, <3>1
  <2> QED
    BY <1>2, <2>1, <2>2, <2>3 DEF WatchInv, WatchTypeOK
<1>8. Holds(p)'
  <2>1. pending'[p] \subseteq e + 1..pos[p]
    BY <1>1, <1>3, <1>4, <1>6
  <2>2. e < pos[p] => pos[p] \in pending'[p]
    BY <1>3, <1>4, <1>6
  <2> QED
    BY <1>2, <1>3, <1>6, <2>1, <2>2 DEF Holds
<1>9. \A q \in Projects \ {p} : Holds(q)'
  BY <1>2, <1>6, OfThread DEF Holds
<1> HIDE DEF x
<1>10. x = Line(p, put[p], put'[p]) /\ put[p] < put'[p] /\ queue' = Append(queue, x)
  BY <1>1, <1>4, <1>6 DEF x
<1> QED
  BY <1>2, <1>5, <1>6, <1>7, <1>8, <1>9, <1>10, OnePut

LEMMA ThreadReads ==
    ASSUME WatchInv, NEW p \in Projects, ReadLine(p)
    PROVE  WatchInv'
<1>1. at[p] = "live" /\ UNCHANGED <<log, watched, at, pending, base, shown, stop>>
  BY DEF ReadLine
<1>2. PICK e \in Nat :
        /\ pos[p] < e /\ e <= Len(log[p])
        /\ queue' = Append(queue, Line(p, pos[p], e))
        /\ pos' = [pos EXCEPT ![p] = e] /\ put' = [put EXCEPT ![p] = e]
  <2>1. PICK e \in DOMAIN log[p] :
        /\ ReadsTo(p, e) /\ queue' = Append(queue, Line(p, pos[p], e))
        /\ pos' = [pos EXCEPT ![p] = e] /\ put' = [put EXCEPT ![p] = e]
    BY DEF ReadLine
  <2>2. e \in Nat /\ pos[p] < e /\ e <= Len(log[p])
    BY <2>1, OfThread DEF ReadsTo
  <2> QED
    BY <2>1, <2>2
<1>3. pending[p] = {} /\ watched # {} /\ put[p] = pos[p] /\ put[p] \in Nat
  BY <1>1, AllPut, OfThread DEF Holds
<1> DEFINE x == Line(p, put[p], e)
<1>4. x \in Items /\ x.path = p
  BY <1>3 DEF Line, Items
<1>5. put'[p] = e /\ pos'[p] = e /\ \A q \in Projects \ {p} : put'[q] = put[q] /\ pos'[q] = pos[q]
  BY <1>2, OfThread
<1>6. WatchTypeOK'
  <2>1. queue' \in Seq(Items)
    BY <1>2, <1>3, <1>4, OfThread, AppendProperties
  <2>2. put' \in [Projects -> Nat] /\ pos' \in [Projects -> Nat]
    BY <1>2, OfThread
  <2>3. \A q \in Projects : base[q] <= put'[q] /\ put'[q] <= pos'[q] /\ pos'[q] <= Len(log[q])
    BY <1>2, <1>3, <1>5, OfThread
  <2> QED
    BY <1>1, <2>1, <2>2, <2>3 DEF WatchInv, WatchTypeOK
<1>7. Holds(p)'
  BY <1>1, <1>2, <1>3, <1>5 DEF Holds
<1>8. \A q \in Projects \ {p} : Holds(q)'
  BY <1>1, <1>5, OfThread DEF Holds
<1> HIDE DEF x
<1>9. x = Line(p, put[p], put'[p]) /\ put[p] < put'[p] /\ queue' = Append(queue, x)
  BY <1>2, <1>3, <1>5 DEF x
<1> QED
  BY <1>1, <1>4, <1>5, <1>6, <1>7, <1>8, <1>9, OnePut

LEMMA ThreadEnds ==
    ASSUME WatchInv, NEW p \in Projects, EndTail(p)
    PROVE  WatchInv'
<1>1. /\ at' = [at EXCEPT ![p] = "gone"] /\ queue' = Append(queue, Sentinel(p))
      /\ UNCHANGED <<log, watched, pos, pending, base, put, shown, stop>>
  BY DEF EndTail
<1> DEFINE x == Sentinel(p)
<1>2. x \in Items /\ x.path = p
  BY DEF Sentinel, Line, Items
<1>3. WatchTypeOK'
  <2>1. queue' \in Seq(Items)
    BY <1>1, <1>2, OfThread, AppendProperties
  <2> QED
    BY <1>1, <2>1 DEF WatchInv, WatchTypeOK
<1>4. \A q \in Projects : Holds(q)'
  BY <1>1, OfThread DEF Holds
<1> HIDE DEF x
<1>5. queue' = Append(queue, x) /\ x = Sentinel(p)
  BY <1>1 DEF x
<1> QED
  BY <1>1, <1>2, <1>3, <1>4, <1>5, OnePut

LEMMA WatchStep ==
    WatchInv /\ [WatchNext]_watchVars => WatchInv'
<1> SUFFICES ASSUME WatchInv, [WatchNext]_watchVars PROVE WatchInv'
  OBVIOUS
<1>1. ASSUME NEW p \in Projects, RecordEvent(p) \/ Tailer(p) PROVE WatchInv'
  BY <1>1, LogGrows, ThreadOpens, ThreadReplays, ThreadMoves, ThreadEmits, ThreadReads, ThreadEnds DEF Tailer
<1>2. CASE StartWatch \/ Show \/ StopWatch
  BY <1>2, MainThread
<1>3. CASE UNCHANGED watchVars
  BY <1>3 DEF watchVars, WatchInv, WatchTypeOK, Holds, Put
<1> QED
  BY <1>1, <1>2, <1>3 DEF WatchNext

(* For any projects, writers and threads: what watch printed of a project  *)
(* and what waits in the queue is the log from where its thread began to   *)
(* what it put, no piece lost, repeated or out of order, and a thread that *)
(* follows the log has put all that it read (_tail_worker, command_watch). *)
THEOREM TailsFaithful == WatchSpec => []TailFaithful
<1>1. WatchInv => TailFaithful
  <2> SUFFICES ASSUME WatchInv, NEW p \in Projects
               PROVE  Lossless(p, Put, base[p], put[p]) /\ (at[p] = "live" => put[p] = pos[p])
    BY DEF TailFaithful, Lossless, Own, Put
  <2>1. at[p] = "live" => put[p] = pos[p]
    BY AllPut
  <2> QED
    BY <2>1 DEF WatchInv
<1> QED
  BY <1>1, WatchStarts, WatchStep, PTL DEF WatchSpec

(* No thread is beyond the end of its log, and each variable of the watch  *)
(* command keeps its type.                                                 *)
THEOREM WatchTypeCorrect == WatchSpec => []WatchTypeOK
<1>1. WatchInv => WatchTypeOK
  BY DEF WatchInv
<1> QED
  BY <1>1, WatchStarts, WatchStep, PTL DEF WatchSpec
=============================================================================
