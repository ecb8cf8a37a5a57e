--------------------------- MODULE SchedulerProofs ---------------------------
(***************************************************************************)
(* Theorems about the scheduler, for every instance: any set of beads, any *)
(* number of workers, any bound.  The records that threads build, keep and *)
(* write back stay bead records; serialized trees keep workers apart; a    *)
(* bead recorded in progress bears a lease; and the corrective budget and  *)
(* the request for a human are kept, whatever is killed and restarted.     *)
(***************************************************************************)
EXTENDS SchedulerProperties, FiniteSetTheorems, TLAPS

-----------------------------------------------------------------------------
(* Records.                                                                *)

(* An absent bead, and a bead just created, are bead records.              *)
LEMMA NoBeadType == NoBead \in Bead
BY DEF NoBead, Bead, Statuses, Reasons

(* A bead made from well-typed dependencies and scope is a bead record.    *)
LEMMA NewBeadType ==
    ASSUME NEW deps \in SUBSET Ids, NEW touched \in SUBSET Files,
           NEW expected \in SUBSET Files, NEW globs \in SUBSET Globs
    PROVE  NewBead(deps, touched, expected, globs) \in Bead
BY DEF NewBead, NoBead, Bead, Statuses, Reasons

(* The scope that a child inherits is a scope.                             *)
LEMMA ScopeTypes ==
    ASSUME NEW r \in Bead
    PROVE  /\ r.touched \in SUBSET Files /\ r.expected \in SUBSET Files
           /\ r.globs \in SUBSET Globs /\ TouchedOrExpected(r) \in SUBSET Files
BY DEF Bead, TouchedOrExpected

(* Correctives, recoveries and followups inherit their scope.              *)
LEMMA ChildTypes ==
    ASSUME NEW r \in Bead, NEW deps \in SUBSET Ids
    PROVE  /\ CorrectiveBead(r) \in Bead
           /\ RecoveryBead(r) \in Bead
           /\ FollowupBead(r, deps) \in Bead
BY NewBeadType, ScopeTypes DEF CorrectiveBead, RecoveryBead, FollowupBead

(* The updates of a record's status, lease, dependencies and scope keep it *)
(* a record.                                                               *)
LEMMA UpdateTypes ==
    ASSUME NEW r \in Bead
    PROVE  /\ \A s \in Statuses : [r EXCEPT !.status = s] \in Bead
           /\ \A l \in BOOLEAN : [r EXCEPT !.lease = l] \in Bead
           /\ \A w \in Reasons : [r EXCEPT !.reason = w] \in Bead
           /\ \A d \in SUBSET Ids : [r EXCEPT !.deps = d] \in Bead
           /\ \A t \in SUBSET Files : [r EXCEPT !.touched = t] \in Bead
           /\ [r EXCEPT !.human = TRUE] \in Bead
           /\ \A c \in Ids : Requeued(r, c) \in Bead
           /\ Running(r) \in Bead
           /\ \A w \in Reasons : Blocked(r, w) \in Bead
BY DEF Bead, Statuses, Reasons, Requeued, Running, Blocked

(* What is read from the store is a record, a set of ids or a store.       *)
LEMMA StoreTypes ==
    /\ EmptyStore \in Store
    /\ \A d \in Store : \A S : View(d, S) \in Store
    /\ \A d \in Store, b \in Ids, r \in Bead : [d EXCEPT ![b] = r] \in Store
    /\ \A d \in Store, b \in Ids : d[b] \in Bead
BY NoBeadType DEF EmptyStore, Store, View

(* What expire_stale_leases leaves is a store.                             *)
LEMMA ExpiredType ==
    ASSUME NEW d \in Store, NEW E
    PROVE  Expired(d, E) \in Store
<1> DEFINE R(r) == [r EXCEPT !.lease = FALSE,
                             !.status = IF @ = "in_progress" THEN "ready" ELSE @]
<1>1. \A r \in Bead : R(r) \in Bead
  BY DEF Bead, Statuses
<1>2. \A b \in Ids : d[b] \in Bead
  BY StoreTypes
<1>3. \A b \in Ids : (IF b \notin E THEN d[b] ELSE R(d[b])) \in Bead
  BY <1>1, <1>2
<1>4. Expired(d, E) = [b \in Ids |-> IF b \notin E THEN d[b] ELSE R(d[b])]
  BY DEF Expired
<1> HIDE DEF R
<1> QED
  BY <1>3, <1>4 DEF Store

(* What a worker makes of the record it holds when it starts and when the  *)
(* agent has answered.                                                     *)
LEMMA PopulatedType ==
    ASSUME NEW d \in Store, NEW b \in Ids, NEW r \in Bead
    PROVE  Populated(b, d, r) \in Bead
<1> DEFINE files == UNION {d[x].touched : x \in DoneDeps(d, r)}
<1>1. \A x \in DoneDeps(d, r) : d[x].touched \in SUBSET Files
  BY StoreTypes, ScopeTypes DEF DoneDeps, Bead
<1>2. files \in SUBSET Files
  BY <1>1
<1>3. (r.touched \cup files) \in SUBSET Files
  BY <1>2, ScopeTypes
<1>4. [r EXCEPT !.touched = r.touched \cup files] \in Bead
  BY <1>3, UpdateTypes
<1> QED
  BY <1>4 DEF Populated

(* The scope an agent reports is all that it changes of a record.          *)
LEMMA RescopedType ==
    ASSUME NEW r \in Bead, NEW report \in Report
    PROVE  /\ Rescoped(r, report) \in Bead
           /\ Rescoped(r, report).expected \in SUBSET Files
           /\ Rescoped(r, report).globs \in SUBSET Globs
           /\ Rescoped(r, report) = [r EXCEPT !.expected = Rescoped(r, report).expected,
                                             !.globs = Rescoped(r, report).globs]
BY DEF Rescoped, Report, Bead

(* A record finalized with an agent's answer is a bead record.             *)
LEMMA FinalizedType ==
    ASSUME TypeOK, NEW b \in Ids, res[b].outcome \in AgentOutcomes
    PROVE  Finalized(b) \in Bead
<1>1. obj[b] \in Bead /\ res[b].touched \in SUBSET Files /\ res[b].scope \in Report
  BY StoreTypes DEF TypeOK, Result
<1>2. ReasonOf(res[b].outcome) \in Reasons
  BY DEF ReasonOf, Reasons
<1>3. Rescoped(obj[b], res[b].scope) \in Bead
  BY <1>1, RescopedType
<1> QED
  BY <1>1, <1>2, <1>3 DEF Finalized, Bead

(* Besides the scope, what the result puts into a record is its lease, its *)
(* reason and the files.                                                   *)
LEMMA FinalizedShape ==
    ASSUME TypeOK, NEW b \in Ids, obj[b] \in Bead
    PROVE  Finalized(b) \in [status : {obj[b].status}, lease : {FALSE}, deps : {obj[b].deps},
                             reason : {ReasonOf(res[b].outcome)}, touched : {Finalized(b).touched},
                             expected : SUBSET Files, globs : SUBSET Globs, retried : {obj[b].retried},
                             human : {obj[b].human}, recov : {obj[b].recov}]
<1> DEFINE q == Rescoped(obj[b], res[b].scope)
<1>1. res[b].scope \in Report
  BY DEF TypeOK, Result
<1>2. q \in Bead /\ q = [obj[b] EXCEPT !.expected = q.expected, !.globs = q.globs]
  BY <1>1, RescopedType
<1>3. /\ q.status = obj[b].status /\ q.deps = obj[b].deps /\ q.retried = obj[b].retried
      /\ q.human = obj[b].human /\ q.recov = obj[b].recov
  BY <1>2 DEF Bead
<1> HIDE DEF q
<1>4. Finalized(b) = [q EXCEPT !.lease = FALSE, !.touched = Finalized(b).touched,
                               !.reason = ReasonOf(res[b].outcome)]
  BY <1>2 DEF Finalized, Bead, q
<1> QED
  BY <1>2, <1>3, <1>4 DEF Bead

(* A followup synchronized with its source is a bead record.               *)
LEMMA SyncedType ==
    ASSUME NEW f \in Bead, NEW source \in Bead
    PROVE  Synced(f, source) \in Bead
BY ScopeTypes DEF Synced, Bead

-----------------------------------------------------------------------------
(* Steps.                                                                  *)

(* A step that leaves the workers' state alone.                            *)
MainType ==
    /\ mpc \in MainSteps
    /\ snap \in Store
    /\ todo \in SUBSET Ids
    /\ target \in Ids \cup {NoId}
    /\ mpc \in {"reevalCreate", "reevalLink"} => target \in Ids
    /\ selected \in SUBSET Ids
    /\ started \in SUBSET Ids
    /\ deferred \in SUBSET Ids

WorkerType ==
    /\ wpc \in [Ids -> WorkerSteps]
    /\ obj \in Store
    /\ subj \in [Ids -> Ids]
    /\ res \in [Ids -> Result]
    /\ seen \in [Ids -> Store \cup {Nothing}]
    /\ \A b \in Ids : wpc[b] \in ReadingSteps => seen[b] # Nothing
    /\ plan \in [Ids -> [FollowupAgents -> Ids \cup {NoId}]]
    /\ \A b \in Ids : wpc[b] \in PlannedSteps => plan[b] \in [FollowupAgents -> Ids]

BoundType ==
    /\ runs \in Nat /\ cycle \in Nat /\ ops \in Nat /\ crashes \in Nat
    /\ forsaken \in SUBSET Ids

(* The type invariant, split by who writes the variables.                  *)
LEMMA TypeParts == TypeOK <=> disk \in Store /\ MainType /\ WorkerType /\ BoundType
BY DEF TypeOK, MainType, WorkerType, BoundType

(* The same split, of the next state.                                      *)
LEMMA TypePartsNext == TypeOK' <=> disk' \in Store /\ MainType' /\ WorkerType' /\ BoundType'
BY DEF TypeOK, MainType, WorkerType, BoundType

(* Saving a bead record leaves a store.                                    *)
LEMMA SaveType ==
    ASSUME disk \in Store, NEW b \in Ids, NEW r \in Bead, Save(b, r)
    PROVE  disk' \in Store
BY StoreTypes DEF Save

(* Variables that a step leaves alone keep their types.                    *)
LEMMA UntouchedTypes ==
    /\ MainType /\ UNCHANGED mvars => MainType'
    /\ WorkerType /\ UNCHANGED wvars => WorkerType'
    /\ BoundType /\ UNCHANGED bounds => BoundType'
BY DEF MainType, WorkerType, BoundType, mvars, wvars, bounds

(* Reaping workers leaves well-typed workers.                              *)
LEMMA ReapType ==
    ASSUME WorkerType, NEW W, Reap(W)
    PROVE  WorkerType'
<1>1. wpc' \in [Ids -> WorkerSteps]
  BY DEF WorkerType, Reap, WorkerSteps
<1>2. obj' \in Store
  BY NoBeadType DEF WorkerType, Reap, Store
<1>3. subj' \in [Ids -> Ids]
  BY DEF WorkerType, Reap
<1>4. res' \in [Ids -> Result]
  BY DEF WorkerType, Reap, NoResult, NoReport, Result, Report
<1>5. seen' \in [Ids -> Store \cup {Nothing}]
  BY DEF WorkerType, Reap
<1>6. \A b \in Ids : wpc'[b] \in ReadingSteps => seen'[b] # Nothing
  BY DEF WorkerType, Reap, ReadingSteps
<1>7. plan' \in [Ids -> [FollowupAgents -> Ids \cup {NoId}]]
  BY DEF WorkerType, Reap, NoPlan
<1>8. \A b \in Ids : wpc'[b] \in PlannedSteps => plan'[b] \in [FollowupAgents -> Ids]
  BY DEF WorkerType, Reap, PlannedSteps
<1> QED
  BY <1>1, <1>2, <1>3, <1>4, <1>5, <1>6, <1>7, <1>8 DEF WorkerType

(* The main thread.                                                        *)
LEMMA MainTypes ==
    ASSUME TypeOK, Main
    PROVE  TypeOK'
<1> USE TypeParts, TypePartsNext, UntouchedTypes
<1>1. CASE BeginCycle
  <2>1. disk' \in Store
    BY <1>1, ExpiredType DEF BeginCycle
  <2>2. todo' \in SUBSET Ids /\ snap' \in Store
    BY <1>1, <2>1, StoreTypes DEF BeginCycle, BlockedBeads
  <2> QED
    BY <1>1, <2>1, <2>2 DEF BeginCycle, MainType, MainSteps
<1>2. ASSUME NEW b \in Ids, RetryTransient(b) PROVE TypeOK'
  <2>1. snap[b] \in Bead
    BY StoreTypes DEF MainType
  <2>2. [snap[b] EXCEPT !.status = "ready", !.reason = "none"] \in Bead
    BY <2>1 DEF Bead, Statuses, Reasons
  <2> QED
    BY <1>2, <2>2, SaveType DEF RetryTransient, Examine, MainType
<1>3. ASSUME NEW b \in Ids, ReevaluateCorrective(b) PROVE TypeOK'
  <2>1. snap[b] \in Bead
    BY StoreTypes DEF MainType
  <2>2. \A c \in LatestDone(disk, b) : Requeued(snap[b], c) \in Bead
    BY <2>1, UpdateTypes DEF LatestDone, CorrectiveChildren, Children
  <2>3. [snap[b] EXCEPT !.human = TRUE] \in Bead
    BY <2>1, UpdateTypes
  <2>4. disk' \in Store
    BY <1>3, <2>2, <2>3, SaveType DEF ReevaluateCorrective
  <2> QED
    BY <1>3, <2>4 DEF ReevaluateCorrective, Examine, MainType, MainSteps
<1>4. CASE ReevalCreate
  <2>1. CorrectiveBead(snap[target]) \in Bead
    BY <1>4, StoreTypes, ChildTypes DEF ReevalCreate, MainType
  <2>2. disk' \in Store
    BY <1>4, <2>1, SaveType DEF ReevalCreate
  <2> QED
    BY <1>4, <2>2 DEF ReevalCreate, MainType, MainSteps
<1>5. CASE ReevalLink
  <2>1. target \in Ids /\ snap[target] \in Bead
    BY <1>5, StoreTypes DEF ReevalLink, MainType
  <2>2. disk' \in Store
    BY <1>5, <2>1, SaveType DEF ReevalLink
  <2> QED
    BY <1>5, <2>2 DEF ReevalLink, MainType, MainSteps
<1>6. CASE BeginFill
  <2>1. todo' \in SUBSET Ids
    BY <1>6 DEF BeginFill, MainType, ReadyBeads
  <2>2. snap' \in Store
    BY <1>6, StoreTypes DEF BeginFill, MainType
  <2>3. deferred' \in SUBSET Ids
    BY <1>6 DEF BeginFill, MainType, WaitingForDeps
  <2> QED
    BY <1>6, <2>1, <2>2, <2>3 DEF BeginFill, MainType, MainSteps
<1>7. ASSUME NEW b \in Ids, DeferBead(b) PROVE TypeOK'
  <2>1. [snap[b] EXCEPT !.reason = "other"] \in Bead
    BY StoreTypes, UpdateTypes DEF MainType, Reasons
  <2> QED
    BY <1>7, <2>1, SaveType DEF DeferBead, NextCandidate, MainType
<1>8. ASSUME NEW b \in Ids, SelectBead(b) PROVE TypeOK'
  BY <1>8 DEF SelectBead, NextCandidate, MainType
<1>9. CASE EndFill
  <2>1. disk' \in Store /\ snap' \in Store /\ todo' = todo /\ target' = target /\ deferred' = deferred
    BY <1>9, StoreTypes DEF EndFill
  <2>2. CASE EndCycle
    BY <1>9, <2>1, <2>2 DEF EndFill, EndCycle, MainType, MainSteps, BoundType
  <2>3. CASE Submit
    <3>1. wpc' \in [Ids -> WorkerSteps]
      BY <2>3 DEF Submit, WorkerType, WorkerSteps
    <3>2. obj' \in Store
      BY <2>3 DEF Submit, WorkerType, MainType, Store
    <3>3. \A b \in Ids : wpc'[b] \in ReadingSteps => seen'[b] # Nothing
      BY <2>3 DEF Submit, WorkerType, ReadingSteps
    <3>4. \A b \in Ids : wpc'[b] \in PlannedSteps => plan'[b] \in [FollowupAgents -> Ids]
      BY <2>3 DEF Submit, WorkerType, PlannedSteps
    <3>5. WorkerType'
      BY <2>3, <3>1, <3>2, <3>3, <3>4 DEF Submit, WorkerType
    <3>6. MainType'
      BY <2>1, <2>3 DEF Submit, MainType, MainSteps
    <3> QED
      BY <1>9, <2>1, <2>3, <3>5, <3>6 DEF EndFill, Submit, BoundType
  <2> QED
    BY <1>9, <2>2, <2>3 DEF EndFill
<1>10. CASE WaitCompletion
  <2>1. WorkerType'
    BY <1>10, ReapType DEF WaitCompletion
  <2>2. todo' \in SUBSET Ids /\ snap' \in Store
    BY <1>10, StoreTypes DEF WaitCompletion, BlockedBeads, MainType
  <2> QED
    BY <1>10, <2>1, <2>2 DEF WaitCompletion, MainType, MainSteps
<1>11. CASE Abort
  BY <1>11, ReapType DEF Abort, MainType, MainSteps
<1> QED
  BY <1>1, <1>2, <1>3, <1>4, <1>5, <1>6, <1>7, <1>8, <1>9, <1>10, <1>11 DEF Main

(* A worker's step: its program counter moves, and what it needs for the   *)
(* next step is there.                                                     *)
LEMMA WorkerStepType ==
    ASSUME TypeOK, NEW b \in Ids, NEW step \in WorkerSteps, Goto(b, step),
           disk' \in Store, obj' \in Store, subj' \in [Ids -> Ids],
           UNCHANGED <<mvars, res, bounds>>,
           seen' \in [Ids -> Store \cup {Nothing}],
           \A x \in Ids \ {b} : seen'[x] = seen[x],
           step \in ReadingSteps => seen'[b] # Nothing,
           plan' \in [Ids -> [FollowupAgents -> Ids \cup {NoId}]],
           \A x \in Ids \ {b} : plan'[x] = plan[x],
           step \in PlannedSteps => plan'[b] \in [FollowupAgents -> Ids]
    PROVE  TypeOK'
<1>1. wpc' \in [Ids -> WorkerSteps]
  BY DEF TypeOK, Goto
<1>2. \A x \in Ids : wpc'[x] \in ReadingSteps => seen'[x] # Nothing
  BY DEF TypeOK, Goto
<1>3. res' \in [Ids -> Result]
  BY DEF TypeOK
<1>4. \A x \in Ids : wpc'[x] \in PlannedSteps => plan'[x] \in [FollowupAgents -> Ids]
  BY DEF TypeOK, Goto
<1>5. WorkerType'
  BY <1>1, <1>2, <1>3, <1>4 DEF WorkerType
<1> QED
  BY <1>5, TypeParts, TypePartsNext, UntouchedTypes

(* The common case: nothing is read for later.                             *)
LEMMA PlainStepType ==
    ASSUME TypeOK, NEW b \in Ids, NEW step \in WorkerSteps \ ReadingSteps, Goto(b, step),
           disk' \in Store, obj' \in Store, UNCHANGED <<mvars, subj, res, seen, plan, bounds>>
    PROVE  TypeOK'
BY WorkerStepType DEF TypeOK, PlannedSteps, ReadingSteps

(* What the worker of b holds.                                             *)
LEMMA HeldTypes ==
    ASSUME TypeOK, NEW b \in Ids
    PROVE  /\ obj[b] \in Bead
           /\ subj[b] \in Ids
           /\ \A r \in Bead : Hold(b, r) => obj' \in Store
           /\ wpc[b] \in ReadingSteps => seen[b] \in Store
BY StoreTypes DEF TypeOK, Hold

(* Before and while the agent runs.                                        *)
LEMMA HeadTypes ==
    ASSUME TypeOK, NEW b \in Ids,
           StartWithoutWorktree(b) \/ Start(b) \/ SaveFeatureRoot(b) \/ Launch(b) \/ AgentReturns(b)
    PROVE  TypeOK'
<1>1. disk \in Store /\ obj \in Store
  BY DEF TypeOK
<1>2. Populated(b, disk, obj[b]) \in Bead
  BY <1>1, HeldTypes, PopulatedType
<1>3. CASE StartWithoutWorktree(b)
  <2>1. disk' \in Store
    BY <1>1, <1>2, <1>3, UpdateTypes, SaveType DEF StartWithoutWorktree, Reasons
  <2> QED
    BY <1>1, <1>3, <2>1, PlainStepType DEF StartWithoutWorktree, WorkerSteps, ReadingSteps
<1>4. CASE Start(b)
  <2>1. disk' \in Store
    BY <1>1, <1>2, <1>4, SaveType DEF Start
  <2>2. obj' \in Store
    BY <1>2, <1>4, UpdateTypes, HeldTypes DEF Start
  <2>3. CASE Tree[b] \in {NoId, b}
    BY <1>4, <2>1, <2>2, <2>3, PlainStepType DEF Start, WorkerSteps, ReadingSteps
  <2>4. CASE Tree[b] \notin {NoId, b} /\ Exists(disk, Tree[b])
    <3>1. View(disk, {Tree[b]}) \in Store \ {Nothing}
      BY <1>1, StoreTypes DEF View, Nothing
    <3>2. /\ Goto(b, "rootSave")
          /\ seen' = [seen EXCEPT ![b] = View(disk, {Tree[b]})]
          /\ UNCHANGED <<mvars, subj, res, plan, bounds>>
      BY <1>4, <2>4 DEF Start
    <3>3. seen' \in [Ids -> Store \cup {Nothing}] /\ seen'[b] # Nothing
      BY <3>1, <3>2 DEF TypeOK
    <3> QED
      BY <2>1, <2>2, <3>2, <3>3, WorkerStepType DEF TypeOK, WorkerSteps, PlannedSteps
  <2>5. CASE Tree[b] \notin {NoId, b} /\ ~Exists(disk, Tree[b])
    BY <1>4, <2>1, <2>2, <2>5, PlainStepType DEF Start, WorkerSteps, ReadingSteps
  <2> QED
    BY <2>3, <2>4, <2>5
<1>5. CASE SaveFeatureRoot(b)
  <2>1. Tree[b] \in Ids \cup {NoId}
    BY StoreAssumption
  <2>2. seen[b] \in Store
    BY <1>5, HeldTypes DEF SaveFeatureRoot, ReadingSteps
  <2>3. disk' \in Store
    BY <1>1, <1>5, <2>1, <2>2, StoreTypes DEF SaveFeatureRoot, Save, Store
  <2>4. seen' \in [Ids -> Store \cup {Nothing}] /\ \A x \in Ids \ {b} : seen'[x] = seen[x]
    BY <1>5 DEF SaveFeatureRoot, TypeOK
  <2> QED
    BY <1>1, <1>5, <2>3, <2>4, WorkerStepType DEF SaveFeatureRoot, TypeOK, WorkerSteps, ReadingSteps, PlannedSteps
<1>6. CASE Launch(b)
  BY <1>1, <1>6, HeldTypes, SaveType, PlainStepType DEF Launch, WorkerSteps, ReadingSteps
<1>7. CASE AgentReturns(b)
  <2>1. PICK o \in Outcomes[b], t \in Touches[b], s \in Reports[b], n \in 0..MaxSubtasks :
            res' = [res EXCEPT ![b] = [outcome |-> o, touched |-> t, scope |-> s, subtasks |-> n]]
    BY <1>7 DEF AgentReturns
  <2>2. o \in AgentOutcomes /\ t \in SUBSET Files /\ s \in Report /\ n \in Nat
    BY SchedulerAssumption
  <2>3. res' \in [Ids -> Result]
    BY <2>1, <2>2 DEF TypeOK, Result
  <2> QED
    BY <1>7, <2>3 DEF AgentReturns, TypeOK, Goto, WorkerSteps, ReadingSteps, PlannedSteps, mvars, bounds
<1> QED
  BY <1>3, <1>4, <1>5, <1>6, <1>7

(* Finalization of an agent's answer.                                      *)
LEMMA OutcomeTypes ==
    ASSUME TypeOK, NEW b \in Ids,
           \/ UnsupportedVerdict(b) \/ FinalizeBlocked(b) \/ FinalizeFailed(b)
           \/ CommitFails(b) \/ FinalizeDone(b)
    PROVE  TypeOK'
<1>1. disk \in Store /\ obj \in Store
  BY DEF TypeOK
<1>2. res[b].outcome \in AgentOutcomes
  BY DEF UnsupportedVerdict, FinalizeBlocked, FinalizeFailed, CommitFails, FinalizeDone,
         Finalizing, AgentOutcomes
<1>3. Finalized(b) \in Bead
  BY <1>2, FinalizedType
<1>4. CASE UnsupportedVerdict(b)
  BY <1>1, <1>4, PlainStepType DEF UnsupportedVerdict, WorkerSteps, ReadingSteps
<1>5. CASE FinalizeBlocked(b)
  <2>1. [Finalized(b) EXCEPT !.status = "blocked"] \in Bead
    BY <1>3, UpdateTypes DEF Statuses
  <2>2. disk' \in Store /\ obj' \in Store
    BY <1>1, <1>5, <2>1, SaveType, HeldTypes DEF FinalizeBlocked
  <2>3. PICK step \in {"corrCheck", "ended"} : Goto(b, step)
    BY <1>5 DEF FinalizeBlocked
  <2> QED
    BY <1>5, <2>2, <2>3, PlainStepType DEF FinalizeBlocked, WorkerSteps, ReadingSteps
<1>6. CASE FinalizeFailed(b)
  <2> DEFINE r == [Finalized(b) EXCEPT !.status = "blocked"]
             recover == res[b].outcome = "no_output" /\ ~r.recov /\ Kind[b] # "recovery"
  <2>1. r \in Bead
    BY <1>3, UpdateTypes DEF Statuses
  <2>2. [r EXCEPT !.recov = r.recov \/ recover] \in Bead
    BY <2>1 DEF Bead
  <2>3. obj' \in Store
    BY <1>6, <2>2, HeldTypes DEF FinalizeFailed
  <2>4. PICK step \in {"recoveryCreate", "failSave"} : Goto(b, step)
    BY <1>6 DEF FinalizeFailed
  <2> QED
    BY <1>1, <1>6, <2>3, <2>4, PlainStepType DEF FinalizeFailed, WorkerSteps, ReadingSteps
<1>7. CASE CommitFails(b)
  <2>1. [Finalized(b) EXCEPT !.status = "blocked", !.reason = "other"] \in Bead
    BY <1>3 DEF Bead, Statuses, Reasons
  <2>2. disk' \in Store /\ obj' \in Store
    BY <1>1, <1>7, <2>1, SaveType, HeldTypes DEF CommitFails
  <2> QED
    BY <1>7, <2>2, PlainStepType DEF CommitFails, WorkerSteps, ReadingSteps
<1>8. CASE FinalizeDone(b)
  <2>1. [Finalized(b) EXCEPT !.status = "done"] \in Bead
    BY <1>3, UpdateTypes DEF Statuses
  <2>2. disk' \in Store /\ obj' \in Store
    BY <1>1, <1>8, <2>1, SaveType, HeldTypes DEF FinalizeDone
  <2>3. PICK step \in {"recLoad", "requeueLoad", "fuList", "ended"} : Goto(b, step)
    BY <1>8 DEF FinalizeDone, AfterDone
  <2> QED
    BY <1>8, <2>2, <2>3, PlainStepType DEF FinalizeDone, WorkerSteps, ReadingSteps
<1> QED
  BY <1>4, <1>5, <1>6, <1>7, <1>8

(* Correctives, recoveries and requeues.                                   *)
LEMMA RepairTypes ==
    ASSUME TypeOK, NEW b \in Ids,
           \/ CheckCorrectives(b) \/ CreateCorrective(b) \/ LinkCorrective(b)
           \/ CreateRecovery(b) \/ SaveFailed(b) \/ LoadOriginal(b) \/ CompleteOriginal(b)
           \/ LoadParent(b) \/ RequeueParent(b)
    PROVE  TypeOK'
<1>1. disk \in Store /\ obj \in Store /\ obj[b] \in Bead /\ subj[b] \in Ids
  BY HeldTypes DEF TypeOK
<1>2. CASE CheckCorrectives(b)
  <2>1. PICK step \in {"corrCreate", "ended"} : Goto(b, step)
    BY <1>2 DEF CheckCorrectives
  <2> QED
    BY <1>1, <1>2, <2>1, PlainStepType DEF CheckCorrectives, WorkerSteps, ReadingSteps
<1>3. CASE CreateCorrective(b)
  <2>1. disk' \in Store
    BY <1>1, <1>3, ChildTypes, SaveType DEF CreateCorrective
  <2> QED
    BY <1>1, <1>3, <2>1, PlainStepType DEF CreateCorrective, WorkerSteps, ReadingSteps
<1>4. CASE LinkCorrective(b)
  BY <1>1, <1>4, SaveType, PlainStepType DEF LinkCorrective, WorkerSteps, ReadingSteps
<1>5. CASE CreateRecovery(b)
  <2>1. disk' \in Store
    BY <1>1, <1>5, ChildTypes, SaveType DEF CreateRecovery
  <2> QED
    BY <1>1, <1>5, <2>1, PlainStepType DEF CreateRecovery, WorkerSteps, ReadingSteps
<1>6. CASE SaveFailed(b)
  BY <1>1, <1>6, SaveType, PlainStepType DEF SaveFailed, WorkerSteps, ReadingSteps
<1>7. CASE LoadOriginal(b)
  <2>1. CASE Exists(disk, Parent[b])
    <3>1. Parent[b] \in Ids /\ disk[Parent[b]] \in Bead
      BY <1>1, <2>1, StoreTypes DEF Exists
    <3>2. obj' \in Store /\ subj' \in [Ids -> Ids] /\ Goto(b, "recSave")
      BY <1>7, <2>1, <3>1, HeldTypes DEF LoadOriginal, TypeOK
    <3> QED
      BY <1>1, <1>7, <3>2, WorkerStepType DEF LoadOriginal, TypeOK, WorkerSteps, ReadingSteps, PlannedSteps
  <2>2. CASE ~Exists(disk, Parent[b])
    BY <1>1, <1>7, <2>2, PlainStepType DEF LoadOriginal, WorkerSteps, ReadingSteps
  <2> QED
    BY <2>1, <2>2
<1>8. CASE CompleteOriginal(b)
  <2> DEFINE q == Rescoped(obj[b], res[b].scope)
             r == [q EXCEPT !.status = "done", !.lease = FALSE, !.reason = "none",
                            !.touched = IF res[b].touched = {} THEN @ ELSE res[b].touched]
  <2>1. res[b].touched \in SUBSET Files /\ q \in Bead
    BY <1>1, RescopedType DEF TypeOK, Result
  <2>2. r \in Bead
    BY <2>1 DEF Bead, Statuses, Reasons
  <2>3. disk' \in Store /\ obj' \in Store
    BY <1>1, <1>8, <2>2, SaveType, HeldTypes DEF CompleteOriginal
  <2>4. PICK step \in {"requeueLoad", "fuList", "ended"} : Goto(b, step)
    BY <1>8 DEF CompleteOriginal, AfterDone
  <2> QED
    BY <1>8, <2>3, <2>4, PlainStepType DEF CompleteOriginal, WorkerSteps, ReadingSteps
<1>9. CASE LoadParent(b)
  <2> DEFINE p == Parent[subj[b]]
             requeue == disk[p].status = "blocked" /\ Verdicts(p) /\ ~AlreadyRetried(disk[p], subj[b])
  <2>1. View(disk, {p}) \in Store \ {Nothing}
    BY <1>1, StoreTypes DEF View, Nothing
  <2>2. CASE requeue
    <3>1. Goto(b, "requeueSave") /\ seen' = [seen EXCEPT ![b] = View(disk, {p})]
      BY <1>9, <2>2 DEF LoadParent
    <3>2. seen' \in [Ids -> Store \cup {Nothing}] /\ seen'[b] # Nothing
      BY <2>1, <3>1 DEF TypeOK
    <3> QED
      BY <1>1, <1>9, <3>1, <3>2, WorkerStepType DEF LoadParent, TypeOK, WorkerSteps, PlannedSteps
  <2>3. CASE ~requeue
    BY <1>1, <1>9, <2>3, PlainStepType DEF LoadParent, WorkerSteps, ReadingSteps
  <2> QED
    BY <2>2, <2>3
<1>10. CASE RequeueParent(b)
  <2>1. seen[b] \in Store
    BY <1>10, HeldTypes DEF RequeueParent, ReadingSteps
  <2> DEFINE p == Parent[subj[b]]
  <2>2. p \in Ids => Requeued(seen[b][p], subj[b]) \in Bead
    BY <1>1, <2>1, StoreTypes, UpdateTypes
  <2>3. disk' \in Store
    BY <1>1, <1>10, <2>2, SaveType DEF RequeueParent, Save, Store
  <2>4. seen' \in [Ids -> Store \cup {Nothing}] /\ \A x \in Ids \ {b} : seen'[x] = seen[x]
    BY <1>10 DEF RequeueParent, TypeOK
  <2> QED
    BY <1>1, <1>10, <2>3, <2>4, WorkerStepType DEF RequeueParent, TypeOK, WorkerSteps, ReadingSteps, PlannedSteps
<1> QED
  BY <1>2, <1>3, <1>4, <1>5, <1>6, <1>7, <1>8, <1>9, <1>10

(* Followups.                                                              *)
LEMMA FollowupTypes ==
    ASSUME TypeOK, NEW b \in Ids,
           \/ ListForFollowups(b) \/ CreateSubtask(b) \/ RefuseSubtask(b) \/ PlanFollowups(b)
           \/ FollowupTest(b) \/ FollowupDocs(b) \/ FollowupReview(b)
    PROVE  TypeOK'
<1>1. disk \in Store /\ obj \in Store /\ obj[b] \in Bead /\ subj[b] \in Ids
  BY HeldTypes DEF TypeOK
<1>2. ASSUME wpc[b] \in PlannedSteps, NEW agent \in FollowupAgents, NEW deps \in SUBSET Ids,
             CreateOrSync(b, agent, deps)
      PROVE  disk' \in Store
  <2>1. plan[b][agent] \in Ids /\ seen[b] \in Store
    BY <1>2, HeldTypes DEF TypeOK, PlannedSteps, ReadingSteps
  <2>2. Synced(seen[b][plan[b][agent]], obj[b]) \in Bead
    BY <1>1, <2>1, StoreTypes, SyncedType
  <2>3. FollowupBead(obj[b], deps) \in Bead
    BY <1>1, ChildTypes
  <2> QED
    BY <1>1, <1>2, <2>1, <2>2, <2>3, SaveType DEF CreateOrSync
<1>3. CASE ListForFollowups(b)
  <2>1. disk # Nothing
    BY <1>1 DEF Store, Nothing
  <2>2. seen' \in [Ids -> Store \cup {Nothing}] /\ seen'[b] # Nothing
        /\ \A x \in Ids \ {b} : seen'[x] = seen[x]
    BY <1>1, <1>3, <2>1 DEF ListForFollowups, TypeOK
  <2> QED
    BY <1>1, <1>3, <2>2, WorkerStepType DEF ListForFollowups, TypeOK, WorkerSteps, PlannedSteps
<1>4. CASE CreateSubtask(b)
  <2>1. \A p \in Proposals : NewBead(p.deps, {}, p.expected, p.globs) \in Bead
    BY NewBeadType, SchedulerAssumption
  <2>2. disk' \in Store
    BY <1>1, <1>4, <2>1, SaveType DEF CreateSubtask
  <2>3. res \in [Ids -> Result] /\ res[b].subtasks \in Nat /\ res[b].subtasks > 0
    BY <1>4 DEF CreateSubtask, TypeOK, Result
  <2>4. res[b].subtasks - 1 \in Nat
    BY <2>3
  <2>5. [res[b] EXCEPT !.subtasks = res[b].subtasks - 1] \in Result
    BY <2>3, <2>4 DEF Result
  <2>6. res' \in [Ids -> Result]
    BY <1>4, <2>3, <2>5 DEF CreateSubtask
  <2> QED
    BY <1>4, <2>2, <2>6 DEF CreateSubtask, TypeOK, mvars, bounds
<1>9. CASE RefuseSubtask(b)
  BY <1>1, <1>9 DEF RefuseSubtask, Goto, TypeOK, WorkerSteps, ReadingSteps, PlannedSteps, mvars
<1>5. CASE PlanFollowups(b)
  <2>1. PICK t \in FollowupIds(b, "tester"), d \in FollowupIds(b, "documentation"),
             r \in FollowupIds(b, "review") :
            plan' = [plan EXCEPT ![b] = [NoPlan EXCEPT !["tester"] = t, !["documentation"] = d,
                                                       !["review"] = r]]
    BY <1>5 DEF PlanFollowups
  <2>2. \A agent : FollowupIds(b, agent) \subseteq Ids
    BY DEF FollowupIds, ExistingFollowup, PlannerOwned, LegacyFollowup, Children
  <2>3. [NoPlan EXCEPT !["tester"] = t, !["documentation"] = d, !["review"] = r]
            \in [FollowupAgents -> Ids]
    BY <2>2 DEF NoPlan, FollowupAgents
  <2>4. /\ plan' \in [Ids -> [FollowupAgents -> Ids \cup {NoId}]]
        /\ plan'[b] \in [FollowupAgents -> Ids]
        /\ \A x \in Ids \ {b} : plan'[x] = plan[x]
    BY <2>1, <2>3 DEF TypeOK
  <2>5. seen[b] # Nothing
    BY <1>5 DEF PlanFollowups, TypeOK, ReadingSteps
  <2> QED
    BY <1>1, <1>5, <2>4, <2>5, WorkerStepType DEF PlanFollowups, TypeOK, WorkerSteps
<1>6. CASE FollowupTest(b)
  <2>1. disk' \in Store
    BY <1>1, <1>2, <1>6 DEF FollowupTest, PlannedSteps, FollowupAgents
  <2> QED
    BY <1>1, <1>6, <2>1, WorkerStepType
    DEF FollowupTest, TypeOK, WorkerSteps, ReadingSteps, PlannedSteps
<1>7. CASE FollowupDocs(b)
  <2>1. disk' \in Store
    BY <1>1, <1>2, <1>7 DEF FollowupDocs, PlannedSteps, FollowupAgents
  <2> QED
    BY <1>1, <1>7, <2>1, WorkerStepType
    DEF FollowupDocs, TypeOK, WorkerSteps, ReadingSteps, PlannedSteps
<1>8. CASE FollowupReview(b)
  <2>1. plan[b] \in [FollowupAgents -> Ids] /\ seen[b] \in Store
    BY <1>8, HeldTypes DEF FollowupReview, TypeOK, PlannedSteps, ReadingSteps
  <2>2. ReviewDeps(b) \in SUBSET Ids
    BY <1>1, <2>1 DEF ReviewDeps, FollowupAgents
  <2> DEFINE synced == Synced(seen[b][plan[b]["review"]], obj[b])
             merged == [synced EXCEPT !.deps = synced.deps \cup ReviewDeps(b)]
  <2>3. plan[b]["review"] \in Ids
    BY <2>1 DEF FollowupAgents
  <2>4. synced \in Bead
    BY <1>1, <2>1, <2>3, StoreTypes, SyncedType
  <2>5. synced.deps \cup ReviewDeps(b) \in SUBSET Ids
    BY <2>2, <2>4 DEF Bead
  <2>6. merged \in Bead
    BY <2>4, <2>5, UpdateTypes
  <2>7. disk' \in Store
    BY <1>1, <1>2, <1>8, <2>2, <2>3, <2>6, SaveType DEF FollowupReview, PlannedSteps, FollowupAgents
  <2>8. PICK step \in {"raised", "ended"} : Goto(b, step)
    BY <1>8 DEF FollowupReview
  <2>9. seen' \in [Ids -> Store \cup {Nothing}] /\ \A x \in Ids \ {b} : seen'[x] = seen[x]
    BY <1>8 DEF FollowupReview, TypeOK
  <2> QED
    BY <1>1, <1>8, <2>7, <2>8, <2>9, WorkerStepType
    DEF FollowupReview, TypeOK, WorkerSteps, ReadingSteps, PlannedSteps
<1> QED
  BY <1>3, <1>4, <1>5, <1>6, <1>7, <1>8, <1>9

(* Operators and crashes.                                                  *)
LEMMA OtherTypes ==
    ASSUME TypeOK, StartRun \/ Operator \/ Crash
    PROVE  TypeOK'
<1>1. CASE StartRun
  BY <1>1 DEF StartRun, TypeOK, MainSteps, wvars
<1>2. ASSUME NEW b \in Ids, OperatorRetry(b) PROVE TypeOK'
  <2>1. disk[b] \in Bead
    BY StoreTypes DEF TypeOK
  <2>2. [disk[b] EXCEPT !.status = "ready", !.lease = FALSE, !.reason = "none"] \in Bead
    BY <2>1 DEF Bead, Statuses, Reasons
  <2>3. disk' \in Store
    BY <1>2, <2>2, SaveType DEF OperatorRetry, TypeOK
  <2> QED
    BY <1>2, <2>3 DEF OperatorRetry, TypeOK, mvars, wvars
<1>3. ASSUME NEW b \in Ids, NEW s \in {"ready", "blocked", "done"}, OperatorStatus(b, s)
      PROVE  TypeOK'
  <2>1. disk[b] \in Bead
    BY StoreTypes DEF TypeOK
  <2>2. [disk[b] EXCEPT !.status = s, !.reason = IF s = "blocked" THEN @ ELSE "none",
                        !.lease = IF s = "blocked" THEN @ ELSE FALSE] \in Bead
    BY <2>1 DEF Bead, Statuses, Reasons
  <2>3. disk' \in Store
    BY <1>3, <2>2, SaveType DEF OperatorStatus, TypeOK
  <2> QED
    BY <1>3, <2>3 DEF OperatorStatus, TypeOK, mvars, wvars
<1>4. CASE Crash
  <2>1. disk' \in Store /\ BoundType'
    BY <1>4 DEF Crash, TypeOK, BoundType
  <2>2. MainType'
    BY <1>4, StoreTypes DEF Crash, MainType, MainSteps
  <2>3. WorkerType'
    BY <1>4, ReapType, TypeParts DEF Crash
  <2> QED
    BY <2>1, <2>2, <2>3, TypePartsNext
<1> QED
  BY <1>1, <1>2, <1>3, <1>4 DEF Operator

(* The type invariant is inductive.                                        *)
LEMMA InitialTypes == Init => TypeOK
<1> SUFFICES ASSUME Init PROVE TypeOK
  OBVIOUS
<1>1. disk \in Store /\ runs = 0 /\ cycle = 0 /\ ops = 0 /\ crashes = 0 /\ forsaken = {}
  BY SchedulerAssumption DEF Init, Idle
<1>2. MainType
  BY StoreTypes DEF Init, Idle, MainType, MainSteps
<1>3. WorkerType
  BY StoreTypes DEF Init, Idle, WorkerType, WorkerSteps, ReadingSteps, PlannedSteps, NoResult, NoReport, Result, Report, NoPlan
<1> QED
  BY <1>1, <1>2, <1>3, TypeParts DEF BoundType

(* Every step keeps the types.                                             *)
LEMMA TypeStep == TypeOK /\ [Next]_vars => TypeOK'
<1> SUFFICES ASSUME TypeOK, [Next]_vars PROVE TypeOK'
  OBVIOUS
<1>1. CASE Main
  BY <1>1, MainTypes
<1>2. CASE Workers
  BY <1>2, HeadTypes, OutcomeTypes, RepairTypes, FollowupTypes DEF Workers, Worker
<1>3. CASE StartRun \/ Operator \/ Crash
  BY <1>3, OtherTypes
<1>4. CASE Rest \/ UNCHANGED vars
  BY <1>4 DEF Rest, vars, mvars, wvars, bounds, TypeOK
<1> QED
  BY <1>1, <1>2, <1>3, <1>4 DEF Next

(* The scheduler's state keeps its types: every record a thread keeps or   *)
(* writes is a bead record, a worker that needs earlier reads has them,    *)
(* and the followup ids are settled before followups are written.          *)
THEOREM TypeCorrect == Spec => []TypeOK
BY InitialTypes, TypeStep, PTL DEF Spec

-----------------------------------------------------------------------------
(* Serialized feature trees.                                               *)

(* Beads that may end up side by side: those in flight and those already   *)
(* picked by the fill pass under way.                                      *)
Claimed == InFlight \cup selected
Apart(S) == \A a, b \in S : a # b => ~(SameTree(a, b) /\ Mutating(a) /\ Mutating(b))

(* The inductive invariant: with serialized trees the claimed beads are    *)
(* apart.  Flight is the part of the type that the argument needs.         *)
Exclusion == Serialize => Apart(Claimed)
Flight == wpc \in [Ids -> WorkerSteps] /\ selected \subseteq Ids
SInv == Flight /\ Exclusion

(* A set inside one whose beads are apart is apart.                        *)
LEMMA ApartSubset ==
    ASSUME NEW S, NEW T, T \subseteq S, Apart(S)
    PROVE  Apart(T)
BY DEF Apart

(* A step that claims no further bead keeps the claimed ones apart.        *)
LEMMA NoNewClaim ==
    ASSUME SInv, Flight', Claimed' \subseteq Claimed
    PROVE  SInv'
<1>1. CASE Serialize
  <2>1. Apart(Claimed)
    BY <1>1 DEF SInv, Exclusion
  <2>2. Apart(Claimed)'
    BY <2>1 DEF Apart, SameTree, Mutating
  <2> QED
    BY <2>2 DEF SInv, Exclusion
<1>2. CASE ~Serialize
  BY <1>2 DEF SInv, Exclusion
<1> QED
  BY <1>1, <1>2

(* With serialized trees, a mutating bead conflicts with every other       *)
(* mutating bead of its tree.                                              *)
LEMMA SerializedConflict ==
    ASSUME NEW a, NEW b, NEW r, NEW s, Serialize, SameTree(a, b), Mutating(a), Mutating(b)
    PROVE  BeadsConflict(b, r, a, s)
BY DEF BeadsConflict

(* What every step of b's worker does to the pool: b is in flight, and at  *)
(* most its program counter moves.                                         *)
Moves(b) ==
    /\ wpc[b] # "none"
    /\ wpc' = wpc \/ \E step \in WorkerSteps : wpc' = [wpc EXCEPT ![b] = step]
    /\ UNCHANGED <<mvars, runs, cycle, ops, crashes>>

(* A worker's step changes its own program counter and nothing of the main *)
(* thread's.                                                               *)
LEMMA WorkerMoves ==
    ASSUME NEW b \in Ids, Worker(b)
    PROVE  Moves(b)
<1>1. CASE StartWithoutWorktree(b)
  BY <1>1 DEF StartWithoutWorktree, Goto, Moves, WorkerSteps, bounds
<1>2. CASE Start(b)
  BY <1>2 DEF Start, Goto, Moves, WorkerSteps, bounds
<1>3. CASE SaveFeatureRoot(b)
  BY <1>3 DEF SaveFeatureRoot, Goto, Moves, WorkerSteps, bounds
<1>4. CASE Launch(b)
  BY <1>4 DEF Launch, Goto, Moves, WorkerSteps, bounds
<1>5. CASE AgentReturns(b)
  BY <1>5 DEF AgentReturns, Goto, Moves, WorkerSteps, bounds
<1>6. CASE UnsupportedVerdict(b)
  BY <1>6 DEF UnsupportedVerdict, Finalizing, Goto, Moves, WorkerSteps, bounds
<1>7. CASE FinalizeBlocked(b)
  BY <1>7 DEF FinalizeBlocked, Finalizing, Goto, Moves, WorkerSteps, bounds
<1>8. CASE CheckCorrectives(b)
  BY <1>8 DEF CheckCorrectives, Goto, Moves, WorkerSteps, bounds
<1>9. CASE CreateCorrective(b)
  BY <1>9 DEF CreateCorrective, Goto, Moves, WorkerSteps, bounds
<1>10. CASE LinkCorrective(b)
  BY <1>10 DEF LinkCorrective, Goto, Moves, WorkerSteps, bounds
<1>11. CASE FinalizeFailed(b)
  BY <1>11 DEF FinalizeFailed, Finalizing, Goto, Moves, WorkerSteps, bounds
<1>12. CASE CreateRecovery(b)
  BY <1>12 DEF CreateRecovery, Goto, Moves, WorkerSteps, bounds
<1>13. CASE SaveFailed(b)
  BY <1>13 DEF SaveFailed, Goto, Moves, WorkerSteps, bounds
<1>14. CASE CommitFails(b)
  BY <1>14 DEF CommitFails, Finalizing, Goto, Moves, WorkerSteps, bounds
<1>15. CASE FinalizeDone(b)
  BY <1>15 DEF FinalizeDone, Finalizing, AfterDone, Goto, Moves, WorkerSteps, bounds
<1>16. CASE LoadOriginal(b)
  BY <1>16 DEF LoadOriginal, Goto, Moves, WorkerSteps, bounds
<1>17. CASE CompleteOriginal(b)
  BY <1>17 DEF CompleteOriginal, AfterDone, Goto, Moves, WorkerSteps, bounds
<1>18. CASE LoadParent(b)
  BY <1>18 DEF LoadParent, Goto, Moves, WorkerSteps, bounds
<1>19. CASE RequeueParent(b)
  BY <1>19 DEF RequeueParent, Goto, Moves, WorkerSteps, bounds
<1>20. CASE ListForFollowups(b)
  BY <1>20 DEF ListForFollowups, Goto, Moves, WorkerSteps, bounds
<1>21. CASE CreateSubtask(b)
  BY <1>21 DEF CreateSubtask, Goto, Moves, WorkerSteps, bounds
<1>22. CASE PlanFollowups(b)
  BY <1>22 DEF PlanFollowups, Goto, Moves, WorkerSteps, bounds
<1>23. CASE FollowupTest(b)
  BY <1>23 DEF FollowupTest, Goto, Moves, WorkerSteps, bounds
<1>24. CASE FollowupDocs(b)
  BY <1>24 DEF FollowupDocs, Goto, Moves, WorkerSteps, bounds
<1>25. CASE FollowupReview(b)
  BY <1>25 DEF FollowupReview, Goto, Moves, WorkerSteps, bounds
<1>26. CASE RefuseSubtask(b)
  BY <1>26 DEF RefuseSubtask, Goto, Moves, WorkerSteps, bounds
<1> QED
  BY <1>1, <1>2, <1>3, <1>4, <1>5, <1>6, <1>7, <1>8, <1>9, <1>10, <1>11, <1>12, <1>13, <1>14,
     <1>15, <1>16, <1>17, <1>18, <1>19, <1>20, <1>21, <1>22, <1>23, <1>24, <1>25, <1>26 DEF Worker

(* A worker's step claims nothing.                                         *)
LEMMA WorkerClaims ==
    ASSUME SInv, NEW b \in Ids, Worker(b)
    PROVE  SInv'
<1>1. Moves(b)
  BY WorkerMoves
<1>2. Flight' /\ InFlight' \subseteq InFlight /\ selected' = selected
  BY <1>1 DEF Moves, SInv, Flight, InFlight, mvars
<1> QED
  BY <1>2, NoNewClaim DEF Claimed

(* The main thread claims a bead when it selects it, and that is when the  *)
(* conflict check keeps it apart from those claimed before.                *)
LEMMA SelectionApart ==
    ASSUME SInv, NEW b \in Ids, SelectBead(b)
    PROVE  SInv'
<1>1. Flight' /\ InFlight' = InFlight /\ selected' \subseteq selected \cup {b}
  BY DEF SelectBead, SInv, Flight, InFlight, wvars
<1>2. ASSUME Serialize PROVE Apart(Claimed \cup {b})
  <2>1. \A a \in Claimed \ {b} : ~(SameTree(a, b) /\ Mutating(a) /\ Mutating(b))
    BY <1>2, SerializedConflict DEF SelectBead, Blockers, Conflicting, Claimed
  <2>2. Apart(Claimed)
    BY <1>2 DEF SInv, Exclusion
  <2> QED
    BY <2>1, <2>2 DEF Apart, SameTree
<1>3. ASSUME Serialize PROVE Apart(Claimed)'
  <2>1. Claimed' \subseteq Claimed \cup {b}
    BY <1>1 DEF Claimed
  <2> QED
    BY <1>2, <1>3, <2>1 DEF Apart, SameTree, Mutating
<1> QED
  BY <1>1, <1>3 DEF SInv, Exclusion

(* Submitting the selected beads puts in flight what was claimed.          *)
LEMMA SubmissionClaims ==
    ASSUME SInv, EndFill
    PROVE  SInv'
<1>1. CASE EndCycle
  <2>1. Flight' /\ InFlight' = InFlight /\ selected' = selected
    BY <1>1 DEF EndCycle, SInv, Flight, InFlight, wvars
  <2> QED
    BY <2>1, NoNewClaim DEF Claimed
<1>2. CASE Submit
  <2>1. Flight'
    BY <1>2 DEF Submit, SInv, Flight, WorkerSteps
  <2>2. InFlight' \subseteq InFlight \cup selected /\ selected' = {}
    BY <1>2 DEF Submit, SInv, Flight, InFlight
  <2> QED
    BY <2>1, <2>2, NoNewClaim DEF Claimed
<1> QED
  BY <1>1, <1>2 DEF EndFill

(* Reaping claims nothing.                                                 *)
LEMMA ReapClaims ==
    ASSUME SInv, NEW W, Reap(W), selected' \subseteq selected
    PROVE  SInv'
<1>1. Flight' /\ InFlight' \subseteq InFlight
  BY DEF Reap, SInv, Flight, InFlight, WorkerSteps
<1> QED
  BY <1>1, NoNewClaim DEF Claimed

(* A step that leaves the pool and the selection alone.                    *)
LEMMA PoolUntouched ==
    ASSUME SInv, UNCHANGED <<wpc, selected>>
    PROVE  SInv'
BY NoNewClaim DEF SInv, Flight, Claimed, InFlight

(* No step of the main thread claims a bead that conflicts with a claimed  *)
(* one.                                                                    *)
LEMMA MainClaims ==
    ASSUME SInv, Main
    PROVE  SInv'
<1>1. CASE BeginCycle
  BY <1>1, PoolUntouched DEF BeginCycle, wvars
<1>2. ASSUME NEW b \in Ids, RetryTransient(b) PROVE SInv'
  BY <1>2, PoolUntouched DEF RetryTransient, wvars
<1>3. ASSUME NEW b \in Ids, ReevaluateCorrective(b) PROVE SInv'
  BY <1>3, PoolUntouched DEF ReevaluateCorrective, wvars
<1>4. CASE ReevalCreate
  BY <1>4, PoolUntouched DEF ReevalCreate, wvars
<1>5. CASE ReevalLink
  BY <1>5, PoolUntouched DEF ReevalLink, wvars
<1>6. CASE BeginFill
  BY <1>6, PoolUntouched DEF BeginFill, wvars
<1>7. ASSUME NEW b \in Ids, DeferBead(b) PROVE SInv'
  BY <1>7, PoolUntouched DEF DeferBead, wvars
<1>8. ASSUME NEW b \in Ids, SelectBead(b) PROVE SInv'
  BY <1>8, SelectionApart
<1>9. CASE EndFill
  BY <1>9, SubmissionClaims
<1>10. CASE WaitCompletion
  BY <1>10, ReapClaims DEF WaitCompletion
<1>11. CASE Abort
  BY <1>11, ReapClaims DEF Abort
<1> QED
  BY <1>1, <1>2, <1>3, <1>4, <1>5, <1>6, <1>7, <1>8, <1>9, <1>10, <1>11 DEF Main

(* With serialize_within_feature_tree no two mutating workers share a      *)
(* worktree: the check in _select_beads_for_dispatch is enough, although   *)
(* the files it reads are stale, because it also looks at what is in       *)
(* flight and at what it has itself selected.                              *)
THEOREM SerializedExclusion == Spec => []SerializedExclusive
<1>1. Init => SInv
  BY DEF Init, Idle, SInv, Flight, Exclusion, Apart, Claimed, InFlight, WorkerSteps
<1>2. SInv /\ [Next]_vars => SInv'
  <2> SUFFICES ASSUME SInv, [Next]_vars PROVE SInv'
    OBVIOUS
  <2>1. CASE StartRun
    BY <2>1, PoolUntouched DEF StartRun, wvars
  <2>2. CASE Main
    BY <2>2, MainClaims
  <2>3. CASE Workers
    BY <2>3, WorkerClaims DEF Workers
  <2>4. CASE Operator
    BY <2>4, PoolUntouched DEF Operator, OperatorRetry, OperatorStatus, mvars, wvars
  <2>5. CASE Crash
    BY <2>5, ReapClaims DEF Crash
  <2>6. CASE Rest
    BY <2>6, PoolUntouched DEF Rest, vars, mvars, wvars
  <2>7. CASE UNCHANGED vars
    BY <2>7, PoolUntouched DEF vars, mvars, wvars
  <2> QED
    BY <2>1, <2>2, <2>3, <2>4, <2>5, <2>6, <2>7 DEF Next
<1>3. SInv => SerializedExclusive
  BY DEF SInv, Exclusion, Apart, Claimed, SerializedExclusive, Sharing, Working, InFlight
<1> QED
  BY <1>1, <1>2, <1>3, PTL DEF Spec

-----------------------------------------------------------------------------
(* Leases.  The files are not enough for the induction: threads keep       *)
(* copies of records and write them back later, so the invariant speaks of *)
(* every copy there is.                                                    *)

Sound(r) == r.status = "in_progress" => r.lease
AllSound(d) == \A x \in Ids : Sound(d[x])

(* The files, the records the main thread listed, the objects the workers  *)
(* hold and the records they have read.                                    *)
Copies ==
    /\ AllSound(disk) /\ AllSound(snap) /\ AllSound(obj)
    /\ \A b \in Ids : seen[b] # Nothing => AllSound(seen[b])
LInv == TypeOK /\ Copies

-----------------------------------------------------------------------------
(* Records.                                                                *)

(* Replacing one record by a sound one keeps a store sound.                *)
LEMMA SoundUpdate ==
    ASSUME NEW d \in Store, AllSound(d), NEW b \in Ids, NEW r, Sound(r)
    PROVE  AllSound([d EXCEPT ![b] = r])
BY DEF AllSound, Store

(* Saving a sound record leaves the files sound.                           *)
LEMMA SoundSave ==
    ASSUME LInv, NEW b \in Ids, NEW r, Sound(r), Save(b, r)
    PROVE  AllSound(disk)'
BY SoundUpdate DEF LInv, TypeOK, Copies, Save, AllSound

(* Holding a sound record leaves the workers' copies sound.                *)
LEMMA SoundHold ==
    ASSUME LInv, NEW b \in Ids, NEW r, Sound(r), Hold(b, r)
    PROVE  AllSound(obj)'
BY SoundUpdate DEF LInv, TypeOK, Copies, Hold, AllSound

(* What is read from sound files is sound.                                 *)
LEMMA SoundViews ==
    /\ AllSound(EmptyStore)
    /\ \A d, S : AllSound(d) => AllSound(View(d, S))
BY DEF AllSound, Sound, EmptyStore, NoBead, View

(* Records as the code makes them: children start ready, and no update     *)
(* drops a lease without changing the status.                              *)
LEMMA SoundRecords ==
    ASSUME NEW r \in Bead
    PROVE  /\ \A s \in Statuses \ {"in_progress"}, q \in Bead : Sound([q EXCEPT !.status = s])
           /\ \A deps, t, e, g : Sound(NewBead(deps, t, e, g))
           /\ \A c : Sound(Requeued(r, c))
           /\ Sound(Running(r))
           /\ \A w : Sound(Blocked(r, w))
           /\ Sound(r) => /\ \A w : Sound([r EXCEPT !.reason = w])
                          /\ \A t : Sound([r EXCEPT !.touched = t])
                          /\ \A d : Sound([r EXCEPT !.deps = d])
                          /\ Sound([r EXCEPT !.human = TRUE])
                          /\ \A source : Sound(Synced(r, source))
BY DEF Sound, Bead, NewBead, NoBead, Requeued, Running, Blocked, Synced

(* Correctives, recoveries and followups start ready, without a lease.     *)
LEMMA SoundChildren ==
    ASSUME NEW r, NEW deps
    PROVE  Sound(CorrectiveBead(r)) /\ Sound(RecoveryBead(r)) /\ Sound(FollowupBead(r, deps))
BY DEF Sound, CorrectiveBead, RecoveryBead, FollowupBead, NewBead, NoBead

(* Expiring a lease makes the bead ready when it drops the lease.          *)
LEMMA SoundExpired ==
    ASSUME NEW d \in Store, NEW E, AllSound(d)
    PROVE  AllSound(Expired(d, E))
<1> SUFFICES ASSUME NEW b \in Ids PROVE Sound(Expired(d, E)[b])
  BY DEF AllSound
<1>1. d[b] \in Bead /\ Sound(d[b])
  BY StoreTypes DEF AllSound
<1> QED
  BY <1>1 DEF Expired, Sound, Bead

(* A worker's first updates of its record keep the status and the lease.   *)
LEMMA SoundPopulated ==
    ASSUME NEW d, NEW b, NEW r \in Bead, Sound(r)
    PROVE  Sound(Populated(b, d, r))
BY DEF Sound, Populated, Bead

-----------------------------------------------------------------------------
(* Steps.                                                                  *)

(* A worker's step: what it now keeps of other beads' records is what it   *)
(* kept, nothing, or a sound store.                                        *)
LEMMA SoundStep ==
    ASSUME LInv, TypeOK', AllSound(disk)', AllSound(obj)', UNCHANGED snap,
           \A b \in Ids : seen'[b] = seen[b] \/ seen'[b] = Nothing \/ AllSound(seen'[b])
    PROVE  LInv'
<1>1. \A b \in Ids : seen'[b] # Nothing => AllSound(seen'[b])
  BY DEF LInv, Copies, AllSound
<1>2. AllSound(snap)'
  BY DEF LInv, Copies, AllSound
<1> QED
  BY <1>1, <1>2 DEF LInv, Copies, AllSound

(* The main thread writes sound records, and lists what the files hold.    *)
LEMMA SoundMain ==
    ASSUME LInv, Main
    PROVE  LInv'
<1>1. TypeOK' /\ disk \in Store /\ snap \in Store
  BY MainTypes DEF LInv, TypeOK
<1>2. AllSound(disk) /\ AllSound(snap) /\ AllSound(obj)
  BY DEF LInv, Copies
<1>3. ASSUME AllSound(disk)', AllSound(snap)', UNCHANGED <<obj, seen>> PROVE LInv'
  BY <1>1, <1>2, <1>3 DEF LInv, Copies, AllSound
<1>4. CASE BeginCycle
  <2>1. AllSound(disk)'
    BY <1>1, <1>2, <1>4, SoundExpired DEF BeginCycle, AllSound
  <2>2. AllSound(snap)'
    BY <1>4, <2>1, SoundViews DEF BeginCycle, AllSound
  <2> QED
    BY <1>3, <1>4, <2>1, <2>2 DEF BeginCycle, wvars
<1>5. ASSUME NEW b \in Ids, RetryTransient(b) PROVE LInv'
  <2>1. snap[b] \in Bead
    BY <1>1, StoreTypes
  <2>2. Sound([snap[b] EXCEPT !.status = "ready", !.reason = "none"])
    BY <2>1 DEF Sound, Bead
  <2>3. AllSound(disk)'
    BY <1>5, <2>2, SoundSave DEF RetryTransient
  <2> QED
    BY <1>2, <1>3, <1>5, <2>3 DEF RetryTransient, wvars, AllSound
<1>6. ASSUME NEW b \in Ids, ReevaluateCorrective(b) PROVE LInv'
  <2>1. snap[b] \in Bead /\ Sound(snap[b])
    BY <1>1, <1>2, StoreTypes DEF AllSound
  <2>2. Sound([snap[b] EXCEPT !.human = TRUE]) /\ \A c : Sound(Requeued(snap[b], c))
    BY <2>1, SoundRecords
  <2>3. AllSound(disk)'
    BY <1>2, <1>6, <2>2, SoundSave DEF ReevaluateCorrective, AllSound
  <2> QED
    BY <1>2, <1>3, <1>6, <2>3 DEF ReevaluateCorrective, wvars, AllSound
<1>7. CASE ReevalCreate
  <2>1. AllSound(disk)'
    BY <1>7, SoundChildren, SoundSave DEF ReevalCreate
  <2> QED
    BY <1>2, <1>3, <1>7, <2>1 DEF ReevalCreate, wvars, AllSound
<1>8. CASE ReevalLink
  <2>1. target \in Ids /\ Sound(snap[target])
    BY <1>2, <1>8 DEF ReevalLink, LInv, TypeOK, AllSound
  <2>2. AllSound(disk)'
    BY <1>8, <2>1, SoundSave DEF ReevalLink
  <2> QED
    BY <1>2, <1>3, <1>8, <2>2 DEF ReevalLink, wvars, AllSound
<1>9. CASE BeginFill
  <2>1. AllSound(snap)'
    BY <1>2, <1>9, SoundViews DEF BeginFill, AllSound
  <2> QED
    BY <1>2, <1>3, <1>9, <2>1 DEF BeginFill, wvars, AllSound
<1>10. ASSUME NEW b \in Ids, DeferBead(b) PROVE LInv'
  <2>1. snap[b] \in Bead /\ Sound(snap[b])
    BY <1>1, <1>2, StoreTypes DEF AllSound
  <2>2. Sound([snap[b] EXCEPT !.reason = "other"])
    BY <2>1, SoundRecords
  <2>3. AllSound(disk)'
    BY <1>2, <1>10, <2>2, SoundSave DEF DeferBead, AllSound
  <2> QED
    BY <1>2, <1>3, <1>10, <2>3 DEF DeferBead, wvars, AllSound
<1>11. ASSUME NEW b \in Ids, SelectBead(b) PROVE LInv'
  BY <1>2, <1>3, <1>11 DEF SelectBead, wvars, AllSound
<1>12. CASE EndFill
  <2>1. AllSound(disk)' /\ AllSound(snap)' /\ seen' = seen
    BY <1>2, <1>12, SoundViews DEF EndFill, EndCycle, Submit, wvars, AllSound
  <2>2. AllSound(obj)'
    BY <1>2, <1>12 DEF EndFill, EndCycle, Submit, wvars, AllSound
  <2> QED
    BY <1>1, <2>1, <2>2 DEF LInv, Copies, AllSound
<1>13. ASSUME NEW W, Reap(W), UNCHANGED disk, AllSound(snap)' PROVE LInv'
  <2>1. AllSound(obj)'
    BY <1>2, <1>13 DEF Reap, AllSound, Sound, NoBead
  <2>2. \A b \in Ids : seen'[b] # Nothing => seen'[b] = seen[b]
    BY <1>13 DEF Reap
  <2> QED
    BY <1>1, <1>2, <1>13, <2>1, <2>2 DEF LInv, Copies, AllSound
<1>14. CASE WaitCompletion
  <2>1. AllSound(snap)'
    BY <1>2, <1>14, SoundViews DEF WaitCompletion, AllSound
  <2> QED
    BY <1>13, <1>14, <2>1 DEF WaitCompletion
<1>15. CASE Abort
  BY <1>2, <1>13, <1>15 DEF Abort, AllSound
<1> QED
  BY <1>4, <1>5, <1>6, <1>7, <1>8, <1>9, <1>10, <1>11, <1>12, <1>14, <1>15 DEF Main

(* What a copy that a worker holds gives.                                  *)
LEMMA SoundHeld ==
    ASSUME LInv, NEW b \in Ids
    PROVE  /\ obj[b] \in Bead /\ Sound(obj[b]) /\ subj[b] \in Ids
           /\ disk \in Store /\ obj \in Store
           /\ AllSound(disk) /\ AllSound(obj)
           /\ wpc[b] \in ReadingSteps => seen[b] \in Store /\ AllSound(seen[b])
BY HeldTypes DEF LInv, TypeOK, Copies, AllSound

(* Before and while the agent runs.                                        *)
LEMMA SoundHead ==
    ASSUME LInv, TypeOK', NEW b \in Ids,
           \/ StartWithoutWorktree(b) \/ Start(b) \/ SaveFeatureRoot(b)
           \/ Launch(b) \/ AgentReturns(b)
    PROVE  LInv'
<1>1. /\ obj[b] \in Bead /\ Sound(obj[b])
      /\ AllSound(disk) /\ AllSound(obj)
  BY SoundHeld
<1> DEFINE full == Populated(b, disk, obj[b])
<1>2. full \in Bead /\ Sound(full)
  BY <1>1, PopulatedType, SoundPopulated, SoundHeld
<1>3. Sound(Running(full)) /\ Sound(Blocked(full, "other"))
  BY <1>2, SoundRecords
<1>4. CASE StartWithoutWorktree(b)
  <2>1. AllSound(disk)'
    BY <1>3, <1>4, SoundSave DEF StartWithoutWorktree
  <2> QED
    BY <1>1, <1>4, <2>1, SoundStep DEF StartWithoutWorktree, mvars, AllSound
<1>5. CASE Start(b)
  <2>1. AllSound(disk)'
    BY <1>1, <1>2, <1>5, SoundSave DEF Start, AllSound
  <2>2. AllSound(obj)'
    BY <1>3, <1>5, SoundHold DEF Start
  <2>3. \A x \in Ids : seen'[x] = seen[x] \/ AllSound(seen'[x])
    BY <1>1, <1>5, SoundViews DEF Start, LInv, TypeOK
  <2> QED
    BY <1>5, <2>1, <2>2, <2>3, SoundStep DEF Start, mvars
<1>6. CASE SaveFeatureRoot(b)
  <2>1. Tree[b] \in Ids => Sound(seen[b][Tree[b]])
    BY <1>6, SoundHeld DEF SaveFeatureRoot, ReadingSteps, AllSound
  <2>2. AllSound(disk)'
    BY <1>1, <1>6, <2>1, SoundSave, SoundHeld DEF SaveFeatureRoot, Save, AllSound, Store
  <2>3. AllSound(obj)' /\ \A x \in Ids : seen'[x] = seen[x] \/ seen'[x] = Nothing
    BY <1>1, <1>6 DEF SaveFeatureRoot, AllSound, LInv, TypeOK
  <2> QED
    BY <1>6, <2>2, <2>3, SoundStep DEF SaveFeatureRoot, mvars
<1>7. CASE Launch(b)
  <2>1. AllSound(disk)'
    BY <1>1, <1>7, SoundSave DEF Launch
  <2> QED
    BY <1>1, <1>7, <2>1, SoundStep DEF Launch, mvars, AllSound
<1>8. CASE AgentReturns(b)
  BY <1>1, <1>8, SoundStep DEF AgentReturns, mvars, AllSound
<1> QED
  BY <1>4, <1>5, <1>6, <1>7, <1>8

(* Finalization: every record written has lost its in-progress status.     *)
LEMMA SoundOutcome ==
    ASSUME LInv, TypeOK', NEW b \in Ids,
           \/ UnsupportedVerdict(b) \/ FinalizeBlocked(b) \/ FinalizeFailed(b)
           \/ CommitFails(b) \/ FinalizeDone(b)
    PROVE  LInv'
<1>1. AllSound(disk) /\ AllSound(obj)
  BY SoundHeld
<1>2. Finalized(b) \in Bead
  BY FinalizedType DEF LInv, UnsupportedVerdict, FinalizeBlocked, FinalizeFailed, CommitFails,
                       FinalizeDone, Finalizing, AgentOutcomes
<1>3. CASE UnsupportedVerdict(b)
  BY <1>1, <1>3, SoundStep DEF UnsupportedVerdict, mvars, AllSound
<1>4. CASE FinalizeBlocked(b)
  <2>1. Sound([Finalized(b) EXCEPT !.status = "blocked"])
    BY <1>2 DEF Bead, Sound
  <2>2. AllSound(disk)' /\ AllSound(obj)'
    BY <1>4, <2>1, SoundSave, SoundHold DEF FinalizeBlocked
  <2> QED
    BY <1>4, <2>2, SoundStep DEF FinalizeBlocked, mvars
<1>5. CASE FinalizeFailed(b)
  <2> DEFINE r == [Finalized(b) EXCEPT !.status = "blocked"]
             recover == res[b].outcome = "no_output" /\ ~r.recov /\ Kind[b] # "recovery"
  <2>1. Sound([r EXCEPT !.recov = r.recov \/ recover])
    BY <1>2 DEF Bead, Sound
  <2>2. AllSound(obj)'
    BY <1>5, <2>1, SoundHold DEF FinalizeFailed
  <2> QED
    BY <1>1, <1>5, <2>2, SoundStep DEF FinalizeFailed, mvars, AllSound
<1>6. CASE CommitFails(b)
  <2>1. Sound([Finalized(b) EXCEPT !.status = "blocked", !.reason = "other"])
    BY <1>2 DEF Bead, Sound
  <2>2. AllSound(disk)' /\ AllSound(obj)'
    BY <1>6, <2>1, SoundSave, SoundHold DEF CommitFails
  <2> QED
    BY <1>6, <2>2, SoundStep DEF CommitFails, mvars
<1>7. CASE FinalizeDone(b)
  <2>1. Sound([Finalized(b) EXCEPT !.status = "done"])
    BY <1>2 DEF Bead, Sound
  <2>2. AllSound(disk)' /\ AllSound(obj)'
    BY <1>7, <2>1, SoundSave, SoundHold DEF FinalizeDone
  <2> QED
    BY <1>7, <2>2, SoundStep DEF FinalizeDone, mvars
<1> QED
  BY <1>3, <1>4, <1>5, <1>6, <1>7

(* Correctives, recoveries and requeues.                                   *)
LEMMA SoundRepair ==
    ASSUME LInv, TypeOK', NEW b \in Ids,
           \/ CheckCorrectives(b) \/ CreateCorrective(b) \/ LinkCorrective(b)
           \/ CreateRecovery(b) \/ SaveFailed(b) \/ LoadOriginal(b) \/ CompleteOriginal(b)
           \/ LoadParent(b) \/ RequeueParent(b)
    PROVE  LInv'
<1>1. /\ obj[b] \in Bead /\ Sound(obj[b])
      /\ disk \in Store /\ AllSound(disk) /\ AllSound(obj)
  BY SoundHeld
<1>2. CASE CheckCorrectives(b)
  BY <1>1, <1>2, SoundStep DEF CheckCorrectives, mvars, AllSound
<1>3. CASE CreateCorrective(b) \/ CreateRecovery(b)
  <2>1. AllSound(disk)'
    BY <1>3, SoundChildren, SoundSave DEF CreateCorrective, CreateRecovery
  <2> QED
    BY <1>1, <1>3, <2>1, SoundStep DEF CreateCorrective, CreateRecovery, mvars, AllSound
<1>4. CASE LinkCorrective(b) \/ SaveFailed(b)
  <2>1. AllSound(disk)'
    BY <1>1, <1>4, SoundSave DEF LinkCorrective, SaveFailed
  <2> QED
    BY <1>1, <1>4, <2>1, SoundStep DEF LinkCorrective, SaveFailed, mvars, AllSound
<1>5. CASE LoadOriginal(b)
  <2>1. AllSound(obj)'
    BY <1>1, <1>5, SoundHold DEF LoadOriginal, Exists, AllSound
  <2> QED
    BY <1>1, <1>5, <2>1, SoundStep DEF LoadOriginal, mvars, AllSound
<1>6. CASE CompleteOriginal(b)
  <2> DEFINE r == [Rescoped(obj[b], res[b].scope) EXCEPT
                       !.status = "done", !.lease = FALSE, !.reason = "none",
                       !.touched = IF res[b].touched = {} THEN @ ELSE res[b].touched]
  <2>1. Sound(r)
    BY <1>1 DEF Bead, Sound, Rescoped
  <2>2. AllSound(disk)' /\ AllSound(obj)'
    BY <1>6, <2>1, SoundSave, SoundHold, SoundHeld DEF CompleteOriginal
  <2> QED
    BY <1>6, <2>2, SoundStep DEF CompleteOriginal, mvars
<1>7. CASE LoadParent(b)
  <2>1. \A x \in Ids : seen'[x] = seen[x] \/ AllSound(seen'[x])
    BY <1>1, <1>7, SoundViews DEF LoadParent, LInv, TypeOK
  <2> QED
    BY <1>1, <1>7, <2>1, SoundStep DEF LoadParent, mvars, AllSound
<1>8. CASE RequeueParent(b)
  <2> DEFINE p == Parent[subj[b]]
  <2>1. seen[b] \in Store
    BY <1>8, SoundHeld DEF RequeueParent, ReadingSteps
  <2>2. p \in Ids => Sound(Requeued(seen[b][p], subj[b]))
    BY <2>1, StoreTypes, SoundRecords
  <2>3. AllSound(disk)'
    BY <1>1, <1>8, <2>2, SoundSave DEF RequeueParent, Save, AllSound, Store
  <2>4. AllSound(obj)' /\ \A x \in Ids : seen'[x] = seen[x] \/ seen'[x] = Nothing
    BY <1>1, <1>8 DEF RequeueParent, AllSound, LInv, TypeOK
  <2> QED
    BY <1>8, <2>3, <2>4, SoundStep DEF RequeueParent, mvars
<1> QED
  BY <1>2, <1>3, <1>4, <1>5, <1>6, <1>7, <1>8

(* Followups: created ready, or synchronized from a sound older record.    *)
LEMMA SoundFollowup ==
    ASSUME LInv, TypeOK', NEW b \in Ids,
           \/ ListForFollowups(b) \/ CreateSubtask(b) \/ RefuseSubtask(b) \/ PlanFollowups(b)
           \/ FollowupTest(b) \/ FollowupDocs(b) \/ FollowupReview(b)
    PROVE  LInv'
<1>1. /\ obj[b] \in Bead /\ AllSound(disk) /\ AllSound(obj)
  BY SoundHeld
<1>2. ASSUME wpc[b] \in PlannedSteps, NEW agent \in FollowupAgents
      PROVE  /\ plan[b][agent] \in Ids
             /\ seen[b][plan[b][agent]] \in Bead
             /\ Synced(seen[b][plan[b][agent]], obj[b]) \in Bead
             /\ Sound(Synced(seen[b][plan[b][agent]], obj[b]))
  <2>1. plan[b][agent] \in Ids /\ seen[b] \in Store /\ AllSound(seen[b])
    BY <1>2, SoundHeld DEF LInv, TypeOK, PlannedSteps, ReadingSteps
  <2>2. seen[b][plan[b][agent]] \in Bead /\ Sound(seen[b][plan[b][agent]])
    BY <2>1, StoreTypes DEF AllSound
  <2> QED
    BY <1>1, <2>1, <2>2, SyncedType, SoundRecords
<1>3. ASSUME wpc[b] \in PlannedSteps, NEW agent \in FollowupAgents, NEW deps,
             CreateOrSync(b, agent, deps)
      PROVE  AllSound(disk)'
  BY <1>1, <1>2, <1>3, SoundChildren, SoundSave DEF CreateOrSync, AllSound
<1>4. CASE ListForFollowups(b)
  <2>1. \A x \in Ids : seen'[x] = seen[x] \/ AllSound(seen'[x])
    BY <1>1, <1>4 DEF ListForFollowups, LInv, TypeOK
  <2> QED
    BY <1>1, <1>4, <2>1, SoundStep DEF ListForFollowups, mvars, AllSound
<1>5. CASE CreateSubtask(b)
  <2>1. \A p \in Proposals : Sound(NewBead(p.deps, {}, p.expected, p.globs))
    BY DEF Sound, NewBead, NoBead
  <2>2. AllSound(disk)'
    BY <1>5, <2>1, SoundSave DEF CreateSubtask
  <2> QED
    BY <1>1, <1>5, <2>2, SoundStep DEF CreateSubtask, mvars, AllSound
<1>6. CASE PlanFollowups(b)
  BY <1>1, <1>6, SoundStep DEF PlanFollowups, mvars, AllSound
<1>7. CASE FollowupTest(b)
  <2>1. AllSound(disk)'
    BY <1>3, <1>7 DEF FollowupTest, PlannedSteps, FollowupAgents
  <2> QED
    BY <1>1, <1>7, <2>1, SoundStep DEF FollowupTest, mvars, AllSound
<1>8. CASE FollowupDocs(b)
  <2>1. AllSound(disk)'
    BY <1>3, <1>8 DEF FollowupDocs, PlannedSteps, FollowupAgents
  <2> QED
    BY <1>1, <1>8, <2>1, SoundStep DEF FollowupDocs, mvars, AllSound
<1>9. CASE FollowupReview(b)
  <2> DEFINE synced == Synced(seen[b][plan[b]["review"]], obj[b])
             merged == [synced EXCEPT !.deps = synced.deps \cup ReviewDeps(b)]
  <2>1. plan[b]["review"] \in Ids /\ synced \in Bead /\ Sound(synced)
    BY <1>2, <1>9 DEF FollowupReview, PlannedSteps, FollowupAgents
  <2>2. Sound(merged)
    BY <2>1, SoundRecords
  <2>3. AllSound(disk)'
    BY <1>1, <1>3, <1>9, <2>1, <2>2, SoundSave
    DEF FollowupReview, PlannedSteps, FollowupAgents, AllSound
  <2>4. AllSound(obj)' /\ \A x \in Ids : seen'[x] = seen[x] \/ seen'[x] = Nothing
    BY <1>1, <1>9 DEF FollowupReview, AllSound, LInv, TypeOK
  <2> QED
    BY <1>9, <2>3, <2>4, SoundStep DEF FollowupReview, mvars
<1>10. CASE RefuseSubtask(b)
  BY <1>1, <1>10, SoundStep DEF RefuseSubtask, mvars, AllSound
<1> QED
  BY <1>4, <1>5, <1>6, <1>7, <1>8, <1>9, <1>10

(* Operators, crashes and the start of a run.                              *)
LEMMA SoundOther ==
    ASSUME LInv, TypeOK', StartRun \/ Operator \/ Crash
    PROVE  LInv'
<1>1. /\ disk \in Store /\ AllSound(disk) /\ AllSound(snap) /\ AllSound(obj)
  BY DEF LInv, TypeOK, Copies
<1>2. CASE StartRun
  BY <1>1, <1>2, SoundStep DEF StartRun, wvars, AllSound
<1>3. ASSUME NEW b \in Ids, OperatorRetry(b) PROVE LInv'
  <2>1. disk[b] \in Bead
    BY <1>1, StoreTypes
  <2>2. Sound([disk[b] EXCEPT !.status = "ready", !.lease = FALSE, !.reason = "none"])
    BY <2>1 DEF Bead, Sound
  <2>3. AllSound(disk)'
    BY <1>3, <2>2, SoundSave DEF OperatorRetry
  <2> QED
    BY <1>1, <1>3, <2>3, SoundStep DEF OperatorRetry, mvars, wvars, AllSound
<1>4. ASSUME NEW b \in Ids, NEW s \in {"ready", "blocked", "done"}, OperatorStatus(b, s)
      PROVE  LInv'
  <2>1. disk[b] \in Bead
    BY <1>1, StoreTypes
  <2>2. Sound([disk[b] EXCEPT !.status = s, !.reason = IF s = "blocked" THEN @ ELSE "none",
                              !.lease = IF s = "blocked" THEN @ ELSE FALSE])
    BY <2>1 DEF Bead, Sound
  <2>3. AllSound(disk)'
    BY <1>4, <2>2, SoundSave DEF OperatorStatus
  <2> QED
    BY <1>1, <1>4, <2>3, SoundStep DEF OperatorStatus, mvars, wvars, AllSound
<1>5. CASE Crash
  <2>1. AllSound(disk)' /\ AllSound(snap)' /\ AllSound(obj)'
    BY <1>1, <1>5, SoundViews DEF Crash, Reap, AllSound, Sound, NoBead
  <2>2. \A b \in Ids : seen'[b] = Nothing
    BY <1>5 DEF Crash, Reap
  <2> QED
    BY <2>1, <2>2 DEF LInv, Copies
<1> QED
  BY <1>2, <1>3, <1>4, <1>5 DEF Operator

(* A bead that is recorded in progress carries a lease, in every file and  *)
(* in every copy of a record that a thread may still write back, so that   *)
(* expire_stale_leases can always return it to the queue after a crash.    *)
THEOREM LeaseCorrect == Spec => []InProgressLeased
<1>1. Init => LInv
  <2> SUFFICES ASSUME Init PROVE LInv
    OBVIOUS
  <2>1. TypeOK
    BY InitialTypes
  <2>2. AllSound(disk)
    BY SchedulerAssumption DEF Init, Idle, AllSound, Sound
  <2> QED
    BY <2>1, <2>2, SoundViews DEF Init, Idle, LInv, Copies
<1>2. LInv /\ [Next]_vars => LInv'
  <2> SUFFICES ASSUME LInv, [Next]_vars PROVE LInv'
    OBVIOUS
  <2>1. TypeOK'
    BY TypeStep DEF LInv
  <2>2. CASE Main
    BY <2>2, SoundMain
  <2>3. CASE Workers
    BY <2>1, <2>3, SoundHead, SoundOutcome, SoundRepair, SoundFollowup DEF Workers, Worker
  <2>4. CASE StartRun \/ Operator \/ Crash
    BY <2>1, <2>4, SoundOther
  <2>5. CASE Rest \/ UNCHANGED vars
    BY <2>1, <2>5 DEF Rest, vars, mvars, wvars, LInv, Copies, AllSound
  <2> QED
    BY <2>2, <2>3, <2>4, <2>5 DEF Next
<1>3. LInv => InProgressLeased
  BY DEF LInv, Copies, AllSound, Sound, InProgressLeased
<1> QED
  BY <1>1, <1>2, <1>3, PTL DEF Spec

-----------------------------------------------------------------------------
(* Copies.  Threads write back whole records that they read some steps     *)
(* before, so the arguments about the budget follow the copies: where a    *)
(* record that is about to be written came from, and what can have been    *)
(* done to it on the way.                                                  *)

Present(r) == r.status # "absent"

(* The records of bead x that some thread can still see: the file, what    *)
(* the main thread listed, the objects the workers hold, what they read.   *)
CopiesOf(x) ==
    {disk[x], snap[x]}
    \cup {obj[w] : w \in {v \in Ids : subj[v] = x}}
    \cup {seen[w][x] : w \in {v \in Ids : seen[v] # Nothing}}

(* What a step makes of a copy r of x: a file that is there stays there, a *)
(* recovery is not forgotten, a human is asked only by an escalation, a    *)
(* retry is recorded when the bead is made ready for it, only the bead's   *)
(* own worker (or an operator) blocks it, and only a review is given       *)
(* dependencies.                                                           *)
Kin(x, r, q) ==
    /\ Present(r) <=> Present(q)
    /\ Mutating(x) => q.deps = r.deps
    /\ r.recov => q.recov
    /\ q.recov => r.recov \/ (wpc[x] = "final" /\ res[x].outcome = "no_output")
    /\ q.human => r.human \/ CorrectiveDecision(disk, x, r) = "escalate"
    /\ \/ q.retried = r.retried
       \/ /\ q.status = "ready"
          /\ \E c \in Ids : /\ q.retried = r.retried \cup {c}
                            /\ Exists(disk, c) /\ Parent[c] = x /\ IsCorrective(c)
    /\ q.status = "blocked" => r.status = "blocked" \/ wpc[x] \in {"begin", "final"} \/ ops' # ops

Derived(x, q) == q \in CopiesOf(x) \/ q = NoBead \/ \E r \in CopiesOf(x) : Kin(x, r, q)

(* A record as create_bead makes it.                                       *)
New(r) == r.status = "ready" /\ ~r.human /\ ~r.recov /\ r.retried = {}

(* Files are rewritten from copies, or one is created: a corrective only   *)
(* by the main thread or the worker of its parent, and only once.          *)
Rewritten == \A x \in Ids : Derived(x, disk'[x]) /\ (Present(disk[x]) => Present(disk'[x]))
MainMakes(p) == mpc = "reevalCreate" /\ target = p /\ mpc' = "reevalLink" /\ wpc' = wpc
WorkerMakes(p) == /\ p \in Ids /\ wpc[p] = "corrCreate" /\ wpc' = [wpc EXCEPT ![p] = "corrLink"]
                  /\ mpc' = mpc /\ target' = target
Created(c) ==
    /\ New(disk'[c])
    /\ \A x \in Ids \ {c} : disk'[x] = disk[x]
    /\ Kind[c] = "corrective" => /\ ~Exists(disk, c)
                                 /\ MainMakes(Parent[c]) \/ WorkerMakes(Parent[c])
FileStep == Rewritten \/ \E c \in Ids : Created(c)

Flow ==
    /\ FileStep
    /\ \A x \in Ids : Derived(x, snap'[x])
    /\ \A w \in Ids : Derived(subj'[w], obj'[w])
    /\ \A w, x \in Ids : seen'[w] # Nothing => Derived(x, seen'[w][x])

(* What the threads hold at each of their steps.                           *)
OwnSteps == {"none", "begin", "rootSave", "launch", "agent", "final",
             "recoveryCreate", "failSave", "corrCheck", "corrCreate", "corrLink", "recLoad"}

MainHolds ==
    /\ mpc # "fill" => selected = {}
    /\ mpc \in {"reeval", "reevalCreate", "reevalLink"} =>
           \A x \in todo : snap[x].status = "blocked"
    /\ mpc \in {"reevalCreate", "reevalLink"} => snap[target].status = "blocked"
    /\ mpc = "fill" => \A x \in todo \cup selected : snap[x].status = "ready" /\ wpc[x] = "none"

WorkerHolds(b) ==
    /\ wpc[b] # "none" => Present(obj[b])
    /\ wpc[b] \in OwnSteps => subj[b] = b
    /\ wpc[b] = "rootSave" => Tree[b] \in Ids /\ Present(seen[b][Tree[b]])
    /\ wpc[b] = "final" => res[b].outcome \in Outcomes[b]
    /\ wpc[b] \in {"requeueLoad", "requeueSave"} => IsCorrective(subj[b])
    /\ wpc[b] = "requeueSave" /\ Parent[subj[b]] \in Ids =>
           seen[b][Parent[subj[b]]].status = "blocked"
    /\ wpc[b] \in PlannedSteps => \A a \in FollowupAgents :
           IF Exists(seen[b], plan[b][a]) THEN Agent[plan[b][a]] = a ELSE Kind[plan[b][a]] = SuffixOf(a)

OnFile == \A x \in Ids : \A r \in CopiesOf(x) : Present(r) => Present(disk[x])

HInv == TypeOK /\ MainHolds /\ (\A b \in Ids : WorkerHolds(b)) /\ OnFile

-----------------------------------------------------------------------------
(* What counts as a copy, now and after a step.                            *)
LEMMA CopyMembers ==
    /\ \A x, r : r \in CopiesOf(x) <=>
           \/ r = disk[x] \/ r = snap[x]
           \/ \E w \in Ids : subj[w] = x /\ r = obj[w]
           \/ \E w \in Ids : seen[w] # Nothing /\ r = seen[w][x]
    /\ \A x, r : r \in CopiesOf(x)' <=>
           \/ r = disk'[x] \/ r = snap'[x]
           \/ \E w \in Ids : subj'[w] = x /\ r = obj'[w]
           \/ \E w \in Ids : seen'[w] # Nothing /\ r = seen'[w][x]
BY DEF CopiesOf

(* Every copy is a bead record.                                            *)
LEMMA CopyTypes ==
    ASSUME TypeOK, NEW x \in Ids, NEW r \in CopiesOf(x)
    PROVE  r \in Bead
<1>1. disk[x] \in Bead /\ snap[x] \in Bead /\ \A w \in Ids : obj[w] \in Bead
  BY StoreTypes DEF TypeOK
<1>2. \A w \in Ids : seen[w] # Nothing => seen[w] \in Store
  BY DEF TypeOK
<1>3. \A w \in Ids : seen[w] # Nothing => seen[w][x] \in Bead
  BY <1>2, StoreTypes
<1> QED
  BY <1>1, <1>3, CopyMembers

(* What is read from the files is a copy, or the absence of one.           *)
LEMMA ViewDerived ==
    ASSUME NEW S, NEW x \in Ids
    PROVE  Derived(x, View(disk, S)[x]) /\ Derived(x, EmptyStore[x])
BY CopyMembers DEF Derived, View, EmptyStore

(* Saving a record that derives from a copy rewrites the files.            *)
LEMMA SaveRewrites ==
    ASSUME disk \in Store, NEW b, NEW r, Save(b, r), b \in Ids => Derived(b, r) /\ Present(r)
    PROVE  Rewritten
BY CopyMembers DEF Rewritten, Save, Derived, Store

(* In particular one that is kin to a copy of a bead that has a file.      *)
LEMMA KinRewrites ==
    ASSUME TypeOK, NEW b \in Ids, NEW r \in CopiesOf(b), NEW q, Present(r), Kin(b, r, q), Save(b, q)
    PROVE  Rewritten
<1>1. Derived(b, q) /\ Present(q)
  BY DEF Derived, Kin
<1> QED
  BY <1>1, SaveRewrites DEF TypeOK

(* A step that leaves the files alone rewrites them with themselves.       *)
LEMMA NoSave == disk' = disk => Rewritten
BY CopyMembers DEF Rewritten, Derived

(* After a step whose copies are accounted for, every copy derives from    *)
(* one there was, or is the file just created, and still has its file.     *)
LEMMA FlowCopies ==
    ASSUME Flow, OnFile
    PROVE  /\ \A x \in Ids : \A q \in CopiesOf(x)' : Derived(x, q) \/ (q = disk'[x] /\ New(q))
           /\ \A x \in Ids : Present(disk[x]) => Present(disk'[x])
           /\ OnFile'
<1>1. \A x \in Ids : Derived(x, disk'[x]) \/ New(disk'[x])
  BY CopyMembers DEF Flow, FileStep, Rewritten, Created, Derived
<1>2. \A x \in Ids : \A q \in CopiesOf(x)' : Derived(x, q) \/ (q = disk'[x] /\ New(q))
  BY <1>1, CopyMembers DEF Flow
<1>3. \A x \in Ids : Present(disk[x]) => Present(disk'[x])
  BY DEF Flow, FileStep, Rewritten, Created, New, Present
<1>4. \A x \in Ids : \A q : Derived(x, q) /\ Present(q) => Present(disk[x])
  BY DEF Derived, OnFile, Kin, NoBead, Present
<1>5. OnFile'
  BY <1>2, <1>3, <1>4 DEF OnFile, Present
<1> QED
  BY <1>2, <1>3, <1>5

-----------------------------------------------------------------------------
(* The main thread.                                                        *)

(* What the main thread writes derives from what it listed.                *)
LEMMA MainRecords ==
    ASSUME NEW x, NEW r \in Bead, Present(r)
    PROVE  /\ Kin(x, r, [r EXCEPT !.status = "ready", !.reason = "none"])
           /\ Kin(x, r, [r EXCEPT !.reason = "other"])
           /\ CorrectiveDecision(disk, x, r) = "escalate" => Kin(x, r, [r EXCEPT !.human = TRUE])
           /\ \A c \in Ids : Exists(disk, c) /\ Parent[c] = x /\ IsCorrective(c) => Kin(x, r, Requeued(r, c))
BY DEF Kin, Bead, Present, Requeued

(* So does what expire_stale_leases writes.                                *)
LEMMA ExpiredKin ==
    ASSUME NEW x, NEW r \in Bead, NEW q,
           q = [r EXCEPT !.lease = FALSE, !.status = IF @ = "in_progress" THEN "ready" ELSE @]
    PROVE  Kin(x, r, q)
BY DEF Kin, Bead, Present

(* A child as the code creates it is new.                                  *)
LEMMA NewChildren ==
    ASSUME NEW r, NEW deps, NEW t, NEW e, NEW g
    PROVE  New(CorrectiveBead(r)) /\ New(RecoveryBead(r)) /\ New(FollowupBead(r, deps)) /\ New(NewBead(deps, t, e, g))
BY DEF New, CorrectiveBead, RecoveryBead, FollowupBead, NewBead, NoBead

(* A step of the main thread that leaves the workers alone.                *)
LEMMA MainStep ==
    ASSUME HInv, TypeOK', FileStep, \A x \in Ids : Derived(x, snap'[x]), UNCHANGED wvars, MainHolds'
    PROVE  Flow /\ HInv'
<1>1. \A w \in Ids : Derived(subj'[w], obj'[w])
  BY CopyMembers DEF Derived, wvars
<1>2. \A w, x \in Ids : seen'[w] # Nothing => Derived(x, seen'[w][x])
  BY CopyMembers DEF Derived, wvars
<1>3. \A b \in Ids : WorkerHolds(b)'
  BY DEF HInv, WorkerHolds, wvars
<1>4. Flow
  BY <1>1, <1>2 DEF Flow
<1> QED
  BY <1>3, <1>4, FlowCopies DEF HInv

(* What the main thread holds is a copy.                                   *)
LEMMA SnapCopies ==
    ASSUME TypeOK
    PROVE  \A x \in Ids : /\ snap[x] \in Bead /\ snap[x] \in CopiesOf(x)
                          /\ snap' = snap => Derived(x, snap'[x])
BY CopyMembers, StoreTypes DEF TypeOK, Derived

(* Workers that leave the pool keep no copy.                               *)
LEMMA ReapFlow ==
    ASSUME HInv, TypeOK', NEW W, Reap(W), UNCHANGED disk,
           \A x \in Ids : Derived(x, snap'[x]), MainHolds'
    PROVE  Flow /\ HInv'
<1>1. \A w \in Ids : Derived(subj'[w], obj'[w])
  BY CopyMembers DEF Derived, Reap
<1>2. \A w, x \in Ids : seen'[w] # Nothing => Derived(x, seen'[w][x])
  BY CopyMembers DEF Derived, Reap
<1>3. \A b \in Ids : WorkerHolds(b)'
  BY DEF HInv, WorkerHolds, Reap, OwnSteps, PlannedSteps
<1>4. Flow
  BY <1>1, <1>2, NoSave DEF Flow, FileStep
<1> QED
  BY <1>3, <1>4, FlowCopies DEF HInv

(* A submitted worker gets the object the main thread listed.              *)
LEMMA SubmitFlow ==
    ASSUME HInv, TypeOK', EndFill
    PROVE  Flow /\ HInv'
<1>1. TypeOK /\ MainHolds
  BY DEF HInv
<1>2. \A x \in Ids : Derived(x, snap'[x])
  BY ViewDerived DEF EndFill
<1>3. CASE selected = {} /\ EndCycle
  <2>1. MainHolds' /\ UNCHANGED wvars /\ disk' = disk
    BY <1>1, <1>3 DEF EndFill, EndCycle, MainHolds
  <2> QED
    BY <1>2, <2>1, NoSave, MainStep DEF FileStep
<1>4. CASE Submit
  <2>1. \A w \in selected : snap[w].status = "ready" /\ wpc[w] = "none" /\ subj[w] = w
    BY <1>1 DEF EndFill, MainHolds, HInv, WorkerHolds, OwnSteps, TypeOK
  <2>2. \A w \in Ids : Derived(subj'[w], obj'[w])
    BY <1>1, <1>4, <2>1, CopyMembers, SnapCopies DEF Submit, Derived
  <2>3. \A w, x \in Ids : seen'[w] # Nothing => Derived(x, seen'[w][x])
    BY <1>4, CopyMembers DEF Derived, Submit
  <2>4. \A b \in Ids : WorkerHolds(b)'
    BY <1>4, <2>1 DEF HInv, WorkerHolds, Submit, OwnSteps, PlannedSteps, Present
  <2>5. MainHolds'
    BY <1>4 DEF MainHolds, Submit
  <2>6. Flow
    BY <1>2, <2>2, <2>3, NoSave DEF EndFill, Flow, FileStep
  <2> QED
    BY <2>4, <2>5, <2>6, FlowCopies DEF HInv
<1> QED
  BY <1>3, <1>4 DEF EndFill

(* Listing, re-evaluating and selecting beads only rewrites files from     *)
(* what was listed, and creates correctives.                               *)
LEMMA MainFlow ==
    ASSUME HInv, Main
    PROVE  Flow /\ HInv'
<1>1. TypeOK /\ TypeOK' /\ MainHolds /\ disk \in Store
  BY MainTypes DEF HInv, TypeOK
<1>2. CASE BeginCycle
  <2>1. PICK E \in SUBSET Leased(disk) : disk' = Expired(disk, E)
    BY <1>2 DEF BeginCycle
  <2>2. \A x \in Ids : Derived(x, disk'[x]) /\ (Present(disk[x]) => Present(disk'[x]))
    <3> SUFFICES ASSUME NEW x \in Ids
                 PROVE  Derived(x, disk'[x]) /\ (Present(disk[x]) => Present(disk'[x]))
      OBVIOUS
    <3>1. disk[x] \in Bead /\ disk[x] \in CopiesOf(x)
      BY <1>1, StoreTypes, CopyMembers
    <3>2. CASE x \notin E
      BY <2>1, <3>1, <3>2 DEF Expired, Derived
    <3>3. CASE x \in E
      <4>1. disk'[x] = [disk[x] EXCEPT !.lease = FALSE, !.status = IF @ = "in_progress" THEN "ready" ELSE @]
        BY <2>1, <3>3 DEF Expired
      <4>2. Kin(x, disk[x], disk'[x])
        BY <3>1, <4>1, ExpiredKin
      <4> QED
        BY <3>1, <4>2 DEF Derived, Kin
    <3> QED
      BY <3>2, <3>3
  <2>3. \A x \in Ids : Derived(x, snap'[x])
    BY <1>2, <2>2, CopyMembers DEF BeginCycle, View, Derived
  <2>4. MainHolds'
    BY <1>1, <1>2 DEF BeginCycle, MainHolds, View, BlockedBeads
  <2>5. Rewritten
    BY <2>2 DEF Rewritten
  <2>6. UNCHANGED wvars
    BY <1>2 DEF BeginCycle
  <2> QED
    BY <1>1, <2>3, <2>4, <2>5, <2>6, MainStep DEF FileStep
<1>3. ASSUME NEW b \in Ids, RetryTransient(b) PROVE Flow /\ HInv'
  <2>1. b \in todo /\ mpc = "reeval" /\ snap[b].status = "blocked"
    BY <1>1, <1>3 DEF RetryTransient, Examine, MainHolds
  <2>2. Kin(b, snap[b], [snap[b] EXCEPT !.status = "ready", !.reason = "none"])
    BY <1>1, <2>1, SnapCopies, MainRecords DEF Present
  <2>3. Rewritten
    BY <1>1, <1>3, <2>1, <2>2, SnapCopies, KinRewrites DEF RetryTransient, Present
  <2>4. MainHolds' /\ UNCHANGED wvars /\ UNCHANGED snap
    BY <1>1, <1>3, <2>1 DEF RetryTransient, Examine, MainHolds
  <2> QED
    BY <1>1, <2>3, <2>4, SnapCopies, MainStep DEF FileStep
<1>4. ASSUME NEW b \in Ids, ReevaluateCorrective(b) PROVE Flow /\ HInv'
  <2>1. b \in todo /\ mpc = "reeval" /\ snap[b].status = "blocked"
    BY <1>1, <1>4 DEF ReevaluateCorrective, Examine, MainHolds
  <2>2. ASSUME NEW c \in LatestDone(disk, b), Save(b, Requeued(snap[b], c)) PROVE Rewritten
    <3>1. c \in Ids /\ Exists(disk, c) /\ Parent[c] = b /\ IsCorrective(c)
      BY StoreAssumption DEF LatestDone, CorrectiveChildren, Children, IsCorrective
    <3>2. Kin(b, snap[b], Requeued(snap[b], c))
      BY <1>1, <2>1, <3>1, SnapCopies, MainRecords DEF Present
    <3> QED
      BY <1>1, <2>1, <2>2, <3>2, SnapCopies, KinRewrites DEF Present
  <2>3. ASSUME CorrectiveDecision(disk, b, snap[b]) = "escalate", Save(b, [snap[b] EXCEPT !.human = TRUE])
        PROVE  Rewritten
    <3>1. Kin(b, snap[b], [snap[b] EXCEPT !.human = TRUE])
      BY <1>1, <2>1, <2>3, SnapCopies, MainRecords DEF Present
    <3> QED
      BY <1>1, <2>1, <2>3, <3>1, SnapCopies, KinRewrites DEF Present
  <2>4. Rewritten
    BY <1>4, <2>2, <2>3, NoSave DEF ReevaluateCorrective
  <2>5. MainHolds' /\ UNCHANGED wvars /\ UNCHANGED snap
    BY <1>1, <1>4, <2>1 DEF ReevaluateCorrective, Examine, MainHolds
  <2> QED
    BY <1>1, <2>4, <2>5, SnapCopies, MainStep DEF FileStep
<1>5. CASE ReevalCreate
  <2>1. PICK c \in Ids : IsFreshChild(disk, target, "corrective", c) /\ Save(c, CorrectiveBead(snap[target]))
    BY <1>5 DEF ReevalCreate
  <2>2. Created(c)
    BY <1>1, <1>5, <2>1, NewChildren
    DEF ReevalCreate, Created, MainMakes, IsFreshChild, Children, Save, Store, wvars
  <2>3. MainHolds' /\ UNCHANGED wvars /\ UNCHANGED snap
    BY <1>1, <1>5 DEF ReevalCreate, MainHolds
  <2> QED
    BY <1>1, <2>2, <2>3, SnapCopies, MainStep DEF FileStep
<1>6. CASE ReevalLink
  <2>1. target \in Ids /\ Present(snap[target])
    BY <1>1, <1>6 DEF ReevalLink, MainHolds, TypeOK, Present
  <2>2. Rewritten
    BY <1>1, <1>6, <2>1, SnapCopies, SaveRewrites DEF ReevalLink, Derived
  <2>3. MainHolds' /\ UNCHANGED wvars /\ UNCHANGED snap
    BY <1>1, <1>6 DEF ReevalLink, MainHolds
  <2> QED
    BY <1>1, <2>2, <2>3, SnapCopies, MainStep DEF FileStep
<1>7. CASE BeginFill
  <2>1. Rewritten /\ UNCHANGED wvars
    BY <1>7, NoSave DEF BeginFill
  <2>2. \A x \in Ids : Derived(x, snap'[x])
    BY <1>1, <1>7, SnapCopies, ViewDerived DEF BeginFill
  <2>3. MainHolds'
    BY <1>1, <1>7 DEF BeginFill, MainHolds, View, ReadyBeads, InFlight, wvars
  <2> QED
    BY <1>1, <2>1, <2>2, <2>3, MainStep DEF FileStep
<1>8. ASSUME NEW b \in Ids, DeferBead(b) PROVE Flow /\ HInv'
  <2>1. b \in todo /\ mpc = "fill" /\ snap[b].status = "ready"
    BY <1>1, <1>8 DEF DeferBead, NextCandidate, MainHolds
  <2>2. Kin(b, snap[b], [snap[b] EXCEPT !.reason = "other"])
    BY <1>1, <2>1, SnapCopies, MainRecords DEF Present
  <2>3. Save(b, [snap[b] EXCEPT !.reason = "other"]) => Rewritten
    BY <1>1, <2>1, <2>2, SnapCopies, KinRewrites DEF Present
  <2>4. Rewritten
    BY <1>8, <2>3, NoSave DEF DeferBead
  <2>5. MainHolds' /\ UNCHANGED wvars /\ UNCHANGED snap
    BY <1>1, <1>8 DEF DeferBead, NextCandidate, MainHolds, wvars
  <2> QED
    BY <1>1, <2>4, <2>5, SnapCopies, MainStep DEF FileStep
<1>9. ASSUME NEW b \in Ids, SelectBead(b) PROVE Flow /\ HInv'
  <2>1. Rewritten /\ UNCHANGED wvars /\ UNCHANGED snap
    BY <1>9, NoSave DEF SelectBead
  <2>2. MainHolds'
    BY <1>1, <1>9 DEF SelectBead, NextCandidate, MainHolds, wvars
  <2> QED
    BY <1>1, <2>1, <2>2, SnapCopies, MainStep DEF FileStep
<1>10. CASE EndFill
  BY <1>1, <1>10, SubmitFlow
<1>11. CASE WaitCompletion
  <2>1. \A x \in Ids : Derived(x, snap'[x])
    BY <1>1, <1>11, SnapCopies, ViewDerived DEF WaitCompletion
  <2>2. MainHolds'
    BY <1>1, <1>11 DEF WaitCompletion, MainHolds, View, BlockedBeads
  <2> QED
    BY <1>1, <1>11, <2>1, <2>2, ReapFlow DEF WaitCompletion
<1>12. CASE Abort
  <2>1. \A x \in Ids : Derived(x, snap'[x])
    BY <1>1, <1>12, SnapCopies DEF Abort
  <2>2. MainHolds'
    BY <1>1, <1>12 DEF Abort, MainHolds
  <2> QED
    BY <1>1, <1>12, <2>1, <2>2, ReapFlow DEF Abort
<1> QED
  BY <1>2, <1>3, <1>4, <1>5, <1>6, <1>7, <1>8, <1>9, <1>10, <1>11, <1>12 DEF Main

-----------------------------------------------------------------------------
(* The workers.                                                            *)

(* What is seen of the other workers.                                      *)
OthersKept(b) ==
    \A x \in Ids \ {b} : /\ wpc'[x] = wpc[x] /\ obj'[x] = obj[x] /\ subj'[x] = subj[x]
                         /\ seen'[x] = seen[x] /\ plan'[x] = plan[x] /\ res'[x] = res[x]

(* A worker's step concerns its own state and the files.                   *)
LEMMA WorkerStep ==
    ASSUME HInv, TypeOK', NEW b \in Ids, wpc[b] # "none", UNCHANGED mvars, OthersKept(b),
           FileStep, Derived(subj'[b], obj'[b]),
           \A x \in Ids : seen'[b] # Nothing => Derived(x, seen'[b][x]),
           WorkerHolds(b)'
    PROVE  Flow /\ HInv'
<1>1. \A w \in Ids : Derived(subj'[w], obj'[w])
  BY CopyMembers DEF Derived, OthersKept
<1>2. \A w, x \in Ids : seen'[w] # Nothing => Derived(x, seen'[w][x])
  BY CopyMembers DEF Derived, OthersKept
<1>3. \A x \in Ids : WorkerHolds(x)'
  BY DEF HInv, WorkerHolds, OthersKept
<1>4. MainHolds'
  BY DEF HInv, MainHolds, OthersKept, TypeOK, mvars
<1>5. \A x \in Ids : Derived(x, snap'[x])
  BY CopyMembers DEF Derived, mvars
<1>6. Flow
  BY <1>1, <1>2, <1>5 DEF Flow
<1> QED
  BY <1>3, <1>4, <1>6, FlowCopies DEF HInv

(* What the worker of b holds is a copy, of b itself at most steps.        *)
LEMMA HeldCopies ==
    ASSUME HInv, NEW b \in Ids
    PROVE  /\ obj[b] \in Bead /\ obj[b] \in CopiesOf(subj[b]) /\ Derived(subj[b], obj[b])
           /\ wpc[b] # "none" => Present(obj[b])
           /\ wpc[b] \in OwnSteps => subj[b] = b
           /\ \A x \in Ids : seen[b] # Nothing =>
                  seen[b][x] \in Bead /\ seen[b][x] \in CopiesOf(x) /\ Derived(x, seen[b][x])
<1>1. seen[b] # Nothing => seen[b] \in Store
  BY DEF HInv, TypeOK
<1> QED
  BY <1>1, CopyMembers, StoreTypes DEF HInv, TypeOK, WorkerHolds, Derived

(* A step after which the worker holds the same copies.                    *)
LEMMA SameCopies ==
    ASSUME HInv, TypeOK', NEW b \in Ids, NEW step, wpc[b] # "none", Goto(b, step),
           UNCHANGED <<mvars, obj, subj, seen, plan>>, \A x \in Ids \ {b} : res'[x] = res[x],
           FileStep, WorkerHolds(b)'
    PROVE  Flow /\ HInv'
<1>1. OthersKept(b)
  BY DEF OthersKept, Goto, HInv, TypeOK
<1> QED
  BY <1>1, HeldCopies, WorkerStep DEF HInv, TypeOK

(* A step that leaves the history of a record alone.                       *)
LEMMA KinOf ==
    ASSUME NEW x, NEW r, NEW q, Present(r) <=> Present(q),
           q.human = r.human, q.recov = r.recov, q.retried = r.retried, q.deps = r.deps,
           q.status = "blocked" => r.status = "blocked" \/ wpc[x] \in {"begin", "final"}
    PROVE  Kin(x, r, q)
BY DEF Kin

(* The records a worker makes of its own bead while it starts.             *)
LEMMA PopulatedKin ==
    ASSUME HInv, NEW b \in Ids, wpc[b] = "begin", NEW q, q = Populated(b, disk, obj[b])
    PROVE  /\ Kin(b, obj[b], q) /\ Kin(b, obj[b], Running(q)) /\ Kin(b, obj[b], Blocked(q, "other"))
           /\ Present(q) /\ Present(Running(q))
<1>1. obj[b] \in Bead /\ Present(obj[b])
  BY HeldCopies
<1>2. q \in Bead
  BY <1>1, PopulatedType DEF HInv, TypeOK
<1>3. /\ q.status = obj[b].status /\ q.human = obj[b].human /\ q.recov = obj[b].recov
      /\ q.retried = obj[b].retried /\ q.deps = obj[b].deps
  BY <1>1 DEF Populated, Bead
<1> QED
  BY <1>1, <1>2, <1>3, KinOf DEF Running, Blocked, Present, Bead

(* Before and while the agent runs.                                        *)
LEMMA HeadFlow ==
    ASSUME HInv, TypeOK', NEW b \in Ids,
           \/ StartWithoutWorktree(b) \/ Start(b) \/ SaveFeatureRoot(b)
           \/ Launch(b) \/ AgentReturns(b)
    PROVE  Flow /\ HInv'
<1> DEFINE full == Populated(b, disk, obj[b])
<1>1. TypeOK /\ WorkerHolds(b)
  BY DEF HInv
<1>2. wpc[b] \in {"begin", "rootSave", "launch", "agent"} /\ subj[b] = b /\ Present(obj[b])
      /\ obj[b] \in CopiesOf(b) /\ obj[b] \in Bead
  BY HeldCopies DEF StartWithoutWorktree, Start, SaveFeatureRoot, Launch, AgentReturns, OwnSteps
<1>3. wpc[b] = "begin" => /\ Kin(b, obj[b], full) /\ Kin(b, obj[b], Running(full))
                          /\ Kin(b, obj[b], Blocked(full, "other"))
                          /\ Present(full) /\ Present(Running(full))
  BY PopulatedKin
<1> HIDE DEF full
<1>4. CASE StartWithoutWorktree(b)
  <2>1. Rewritten
    BY <1>1, <1>2, <1>3, <1>4, KinRewrites DEF StartWithoutWorktree, full
  <2>2. WorkerHolds(b)'
    BY <1>1, <1>2, <1>4 DEF StartWithoutWorktree, WorkerHolds, Goto, OwnSteps, PlannedSteps, TypeOK
  <2> QED
    BY <1>2, <1>4, <2>1, <2>2, SameCopies DEF StartWithoutWorktree, FileStep
<1>5. CASE Start(b)
  <2>1. Rewritten
    BY <1>1, <1>2, <1>3, <1>5, KinRewrites, NoSave DEF Start, full
  <2>2. obj' = [obj EXCEPT ![b] = Running(full)] /\ subj' = subj /\ plan' = plan /\ UNCHANGED mvars
    BY <1>5 DEF Start, full, Hold
  <2>3. Derived(subj'[b], obj'[b]) /\ Present(obj'[b])
    BY <1>1, <1>2, <1>3, <1>5, <2>2 DEF Start, Derived, TypeOK, Store
  <2>4. \A x \in Ids : seen'[b] # Nothing => Derived(x, seen'[b][x])
    BY <1>1, <1>5, HeldCopies, ViewDerived DEF Start, TypeOK
  <2>5. /\ wpc'[b] \in {"launch", "raised", "rootSave"}
        /\ wpc'[b] = "rootSave" => Tree[b] \in Ids /\ Present(seen'[b][Tree[b]])
    BY <1>1, <1>5 DEF Start, Goto, TypeOK, Exists, View, Present
  <2>6. WorkerHolds(b)'
    BY <1>2, <2>2, <2>3, <2>5 DEF WorkerHolds, OwnSteps, PlannedSteps
  <2>7. OthersKept(b)
    BY <1>1, <1>5, <2>2 DEF Start, OthersKept, Goto, TypeOK, Store
  <2> QED
    BY <1>2, <2>1, <2>2, <2>3, <2>4, <2>6, <2>7, WorkerStep DEF FileStep
<1>6. CASE SaveFeatureRoot(b)
  <2>1. wpc[b] = "rootSave" /\ seen[b] # Nothing /\ Tree[b] \in Ids /\ Present(seen[b][Tree[b]])
    BY <1>1, <1>6 DEF SaveFeatureRoot, WorkerHolds, TypeOK, ReadingSteps
  <2>2. Rewritten
    BY <1>1, <1>6, <2>1, HeldCopies, SaveRewrites DEF SaveFeatureRoot, TypeOK
  <2>3. OthersKept(b) /\ seen'[b] = Nothing /\ wpc'[b] = "launch"
    BY <1>1, <1>6 DEF SaveFeatureRoot, OthersKept, Goto, TypeOK
  <2>4. WorkerHolds(b)'
    BY <1>1, <1>2, <1>6, <2>3 DEF SaveFeatureRoot, WorkerHolds, OwnSteps, PlannedSteps
  <2> QED
    BY <1>2, <1>6, <2>2, <2>3, <2>4, HeldCopies, WorkerStep DEF SaveFeatureRoot, FileStep
<1>7. CASE Launch(b)
  <2>1. Rewritten
    BY <1>1, <1>2, <1>7, SaveRewrites DEF Launch, Derived, TypeOK
  <2>2. WorkerHolds(b)'
    BY <1>1, <1>2, <1>7 DEF Launch, WorkerHolds, Goto, OwnSteps, PlannedSteps, TypeOK
  <2> QED
    BY <1>2, <1>7, <2>1, <2>2, SameCopies DEF Launch, FileStep
<1>8. CASE AgentReturns(b)
  <2>2. res'[b].outcome \in Outcomes[b] /\ \A x \in Ids \ {b} : res'[x] = res[x]
    BY <1>1, <1>8 DEF AgentReturns, TypeOK
  <2>1. WorkerHolds(b)'
    BY <2>2, <1>1, <1>2, <1>8 DEF AgentReturns, WorkerHolds, Goto, OwnSteps, PlannedSteps, TypeOK
  <2> QED
    BY <1>2, <1>8, <2>1, <2>2, NoSave, SameCopies DEF AgentReturns, FileStep
<1> QED
  BY <1>4, <1>5, <1>6, <1>7, <1>8

(* Finalization blocks the bead, completes it or notes its recovery.       *)
LEMMA FinalizedKin ==
    ASSUME HInv, NEW b \in Ids, wpc[b] = "final", res[b].outcome \in AgentOutcomes
    PROVE  /\ \A s \in {"blocked", "done"} :
                  /\ Kin(b, obj[b], [Finalized(b) EXCEPT !.status = s])
                  /\ Present([Finalized(b) EXCEPT !.status = s])
           /\ \A w : Kin(b, obj[b], [Finalized(b) EXCEPT !.status = "blocked", !.reason = w])
           /\ \A recov \in BOOLEAN : (recov => res[b].outcome = "no_output") =>
                  /\ Kin(b, obj[b], [[Finalized(b) EXCEPT !.status = "blocked"] EXCEPT !.recov = @ \/ recov])
                  /\ Present([[Finalized(b) EXCEPT !.status = "blocked"] EXCEPT !.recov = @ \/ recov])
<1>1. obj[b] \in Bead /\ Present(obj[b])
  BY HeldCopies
<1>2. Finalized(b) \in Bead
  BY FinalizedType DEF HInv
<1>3. /\ Finalized(b).human = obj[b].human /\ Finalized(b).recov = obj[b].recov
      /\ Finalized(b).retried = obj[b].retried /\ Finalized(b).deps = obj[b].deps
  BY <1>1 DEF Finalized, Rescoped, Bead
<1> HIDE DEF Finalized
<1> QED
  BY <1>1, <1>2, <1>3 DEF Kin, Present, Bead

(* A step in which the worker saves, holds or saves and holds one record   *)
(* of the bead it is about.                                                *)
LEMMA HoldStep ==
    ASSUME HInv, TypeOK', NEW b \in Ids, NEW q, wpc[b] # "none", NEW step \in WorkerSteps,
           Derived(subj[b], q), Present(q), Hold(b, q), Goto(b, step), Rewritten,
           step \notin {"none", "rootSave", "final", "requeueSave"} \cup PlannedSteps,
           step = "requeueLoad" => IsCorrective(subj[b]),
           step \in OwnSteps => subj[b] = b,
           UNCHANGED <<mvars, subj, res, seen, plan>>
    PROVE  Flow /\ HInv'
<1>1. TypeOK
  BY DEF HInv
<1>2. OthersKept(b) /\ obj'[b] = q /\ wpc'[b] = step
  BY <1>1 DEF OthersKept, Goto, Hold, TypeOK, Store
<1>3. WorkerHolds(b)'
  BY <1>2 DEF WorkerHolds, PlannedSteps
<1> QED
  BY <1>2, <1>3, HeldCopies, WorkerStep DEF FileStep

(* Finalization of an agent's answer.                                      *)
LEMMA OutcomeFlow ==
    ASSUME HInv, TypeOK', NEW b \in Ids,
           \/ UnsupportedVerdict(b) \/ FinalizeBlocked(b) \/ FinalizeFailed(b)
           \/ CommitFails(b) \/ FinalizeDone(b)
    PROVE  Flow /\ HInv'
<1>1. TypeOK /\ WorkerHolds(b)
  BY DEF HInv
<1>2. wpc[b] = "final" /\ res[b].outcome \in AgentOutcomes
  BY DEF UnsupportedVerdict, FinalizeBlocked, FinalizeFailed, CommitFails, FinalizeDone,
         Finalizing, AgentOutcomes
<1>3. subj[b] = b /\ Present(obj[b]) /\ obj[b] \in CopiesOf(b) /\ obj[b] \in Bead
  BY <1>2, HeldCopies DEF OwnSteps
<1>4. CASE UnsupportedVerdict(b)
  <2>1. WorkerHolds(b)'
    BY <1>1, <1>3, <1>4 DEF UnsupportedVerdict, WorkerHolds, Goto, OwnSteps, PlannedSteps, TypeOK
  <2> QED
    BY <1>2, <1>4, <2>1, NoSave, SameCopies DEF UnsupportedVerdict, FileStep
<1>5. CASE FinalizeBlocked(b)
  <2> DEFINE q == [Finalized(b) EXCEPT !.status = "blocked"]
  <2>1. Kin(b, obj[b], q) /\ Present(q)
    BY <1>2, FinalizedKin
  <2>2. PICK step \in {"corrCheck", "ended"} : Goto(b, step)
    BY <1>5 DEF FinalizeBlocked
  <2>3. Save(b, q) /\ Hold(b, q) /\ UNCHANGED <<mvars, subj, res, seen, plan>>
    BY <1>5 DEF FinalizeBlocked
  <2> HIDE DEF q
  <2>4. Rewritten /\ Derived(b, q)
    BY <1>1, <1>3, <2>1, <2>3, KinRewrites DEF Derived
  <2> QED
    BY <1>2, <1>3, <2>1, <2>2, <2>3, <2>4, HoldStep DEF WorkerSteps, PlannedSteps
<1>6. CASE FinalizeFailed(b)
  <2> DEFINE r == [Finalized(b) EXCEPT !.status = "blocked"]
             recover == res[b].outcome = "no_output" /\ ~r.recov /\ Kind[b] # "recovery"
             q == [r EXCEPT !.recov = @ \/ recover]
  <2>1. recover \in BOOLEAN /\ (recover => res[b].outcome = "no_output")
    OBVIOUS
  <2>2. Kin(b, obj[b], q) /\ Present(q)
    BY <1>2, <2>1, FinalizedKin
  <2>3. Hold(b, q) /\ UNCHANGED <<mvars, subj, res, seen, plan>> /\ disk' = disk
    BY <1>6 DEF FinalizeFailed
  <2>4. PICK step \in {"recoveryCreate", "failSave"} : Goto(b, step)
    BY <1>6 DEF FinalizeFailed
  <2> HIDE DEF q
  <2> QED
    BY <1>2, <1>3, <2>2, <2>3, <2>4, NoSave, HoldStep DEF WorkerSteps, PlannedSteps, Derived
<1>7. CASE CommitFails(b)
  <2> DEFINE q == [Finalized(b) EXCEPT !.status = "blocked", !.reason = "other"]
  <2>1. Kin(b, obj[b], q)
    BY <1>2, FinalizedKin
  <2>2. Save(b, q) /\ Hold(b, q) /\ UNCHANGED <<mvars, subj, res, seen, plan>> /\ Goto(b, "ended")
    BY <1>7 DEF CommitFails
  <2> HIDE DEF q
  <2>3. Rewritten /\ Derived(b, q) /\ Present(q)
    BY <1>1, <1>3, <2>1, <2>2, KinRewrites DEF Derived, Kin
  <2> QED
    BY <1>2, <1>3, <2>2, <2>3, HoldStep DEF WorkerSteps, PlannedSteps
<1>8. CASE FinalizeDone(b)
  <2> DEFINE q == [Finalized(b) EXCEPT !.status = "done"]
  <2>1. Kin(b, obj[b], q) /\ Present(q)
    BY <1>2, FinalizedKin
  <2>2. Save(b, q) /\ Hold(b, q) /\ UNCHANGED <<mvars, subj, res, seen, plan>>
    BY <1>8 DEF FinalizeDone
  <2>3. PICK step \in {"recLoad", "requeueLoad", "fuList", "ended"} :
            Goto(b, step) /\ (step = "requeueLoad" => IsCorrective(b))
    BY <1>8 DEF FinalizeDone, AfterDone
  <2> HIDE DEF q
  <2>4. Rewritten /\ Derived(b, q)
    BY <1>1, <1>3, <2>1, <2>2, KinRewrites DEF Derived
  <2> QED
    BY <1>2, <1>3, <2>1, <2>2, <2>3, <2>4, HoldStep DEF WorkerSteps, PlannedSteps
<1> QED
  BY <1>4, <1>5, <1>6, <1>7, <1>8

(* A step that creates a child which is no corrective.                     *)
LEMMA OtherChild ==
    ASSUME TypeOK, NEW c \in Ids, Kind[c] # "corrective", NEW r, New(r), Save(c, r)
    PROVE  FileStep
BY DEF FileStep, Created, Save, TypeOK, Store

(* Correctives, recoveries and requeues.                                   *)
LEMMA RepairFlow ==
    ASSUME HInv, TypeOK', NEW b \in Ids,
           \/ CheckCorrectives(b) \/ CreateCorrective(b) \/ LinkCorrective(b)
           \/ CreateRecovery(b) \/ SaveFailed(b) \/ LoadOriginal(b) \/ CompleteOriginal(b)
           \/ LoadParent(b) \/ RequeueParent(b)
    PROVE  Flow /\ HInv'
<1>1. TypeOK /\ WorkerHolds(b) /\ OnFile
  BY DEF HInv
<1>2. wpc[b] # "none" /\ Present(obj[b]) /\ obj[b] \in CopiesOf(subj[b]) /\ obj[b] \in Bead /\ subj[b] \in Ids
  BY <1>1, HeldCopies DEF CheckCorrectives, CreateCorrective, LinkCorrective, CreateRecovery, SaveFailed,
         LoadOriginal, CompleteOriginal, LoadParent, RequeueParent, TypeOK
<1>3. ASSUME NEW step \in {"corrCreate", "corrLink", "failSave", "ended"}, Goto(b, step),
             UNCHANGED <<mvars, obj, subj, seen, plan, res>>, FileStep, step = "ended" \/ wpc[b] \in OwnSteps
      PROVE  Flow /\ HInv'
  <2>1. WorkerHolds(b)'
    BY <1>1, <1>2, <1>3 DEF WorkerHolds, Goto, OwnSteps, PlannedSteps, TypeOK
  <2> QED
    BY <1>2, <1>3, <2>1, SameCopies
<1>4. CASE CheckCorrectives(b)
  BY <1>3, <1>4, NoSave DEF CheckCorrectives, FileStep, OwnSteps
<1>5. CASE CreateCorrective(b)
  <2>1. PICK c \in Ids : IsFreshChild(disk, b, "corrective", c) /\ Save(c, CorrectiveBead(obj[b]))
    BY <1>5 DEF CreateCorrective
  <2>2. WorkerMakes(b)
    BY <1>5 DEF CreateCorrective, WorkerMakes, Goto, mvars
  <2>3. Created(c)
    BY <1>1, <2>1, <2>2, NewChildren DEF Created, IsFreshChild, Children, Save, Store, TypeOK
  <2> QED
    BY <1>3, <1>5, <2>3 DEF CreateCorrective, FileStep, OwnSteps
<1>6. CASE CreateRecovery(b)
  <2>1. FileStep
    BY <1>1, <1>6, OtherChild, NewChildren DEF CreateRecovery, IsFreshChild, Children
  <2> QED
    BY <1>3, <1>6, <2>1 DEF CreateRecovery, OwnSteps
<1>7. CASE LinkCorrective(b) \/ SaveFailed(b)
  <2>1. subj[b] = b /\ Save(b, obj[b])
    BY <1>1, <1>7 DEF WorkerHolds, LinkCorrective, SaveFailed, OwnSteps
  <2>2. Rewritten
    BY <1>1, <1>2, <2>1, SaveRewrites DEF Derived, TypeOK
  <2> QED
    BY <1>3, <1>7, <2>2 DEF LinkCorrective, SaveFailed, FileStep
<1>8. CASE LoadOriginal(b)
  <2>1. CASE Exists(disk, Parent[b])
    <3>1. /\ obj' = [obj EXCEPT ![b] = disk[Parent[b]]] /\ subj' = [subj EXCEPT ![b] = Parent[b]]
          /\ wpc' = [wpc EXCEPT ![b] = "recSave"] /\ disk' = disk
          /\ UNCHANGED <<mvars, res, seen, plan>>
      BY <1>8, <2>1 DEF LoadOriginal, Hold, Goto
    <3>2. obj'[b] = disk[Parent[b]] /\ subj'[b] = Parent[b] /\ wpc'[b] = "recSave" /\ OthersKept(b)
      BY <1>1, <3>1 DEF OthersKept, TypeOK, Store
    <3>3. Derived(subj'[b], obj'[b]) /\ WorkerHolds(b)'
      BY <2>1, <3>1, <3>2, CopyMembers DEF Derived, WorkerHolds, OwnSteps, PlannedSteps, Exists, Present
    <3> QED
      BY <1>2, <3>1, <3>2, <3>3, NoSave, HeldCopies, WorkerStep DEF FileStep
  <2>2. CASE ~Exists(disk, Parent[b])
    BY <1>3, <1>8, <2>2, NoSave DEF LoadOriginal, FileStep
  <2> QED
    BY <2>1, <2>2
<1>9. CASE CompleteOriginal(b)
  <2> DEFINE q == [Rescoped(obj[b], res[b].scope) EXCEPT
                       !.status = "done", !.lease = FALSE, !.reason = "none",
                       !.touched = IF res[b].touched = {} THEN @ ELSE res[b].touched]
  <2>1. Kin(subj[b], obj[b], q) /\ Present(q)
    BY <1>2 DEF Kin, Present, Bead, Rescoped
  <2>2. Save(subj[b], q) /\ Hold(b, q) /\ UNCHANGED <<mvars, subj, res, seen, plan>>
    BY <1>9 DEF CompleteOriginal
  <2>3. PICK step \in {"requeueLoad", "fuList", "ended"} :
            Goto(b, step) /\ (step = "requeueLoad" => IsCorrective(subj[b]))
    BY <1>9 DEF CompleteOriginal, AfterDone
  <2> HIDE DEF q
  <2>4. Rewritten /\ Derived(subj[b], q)
    BY <1>1, <1>2, <2>1, <2>2, KinRewrites DEF Derived
  <2> QED
    BY <1>2, <2>1, <2>2, <2>3, <2>4, HoldStep DEF WorkerSteps, PlannedSteps, OwnSteps
<1>10. CASE LoadParent(b)
  <2> DEFINE p == Parent[subj[b]]
  <2>1. disk' = disk /\ UNCHANGED <<mvars, obj, subj, res, plan>> /\ OthersKept(b)
    BY <1>1, <1>10 DEF LoadParent, Goto, OthersKept, TypeOK
  <2>2. wpc[b] = "requeueLoad" /\ IsCorrective(subj[b])
    BY <1>1, <1>10 DEF LoadParent, WorkerHolds
  <2>3. CASE wpc'[b] = "requeueSave"
    <3>1. seen'[b] = View(disk, {p}) /\ disk[p].status = "blocked"
      BY <1>1, <1>10, <2>3 DEF LoadParent, Goto, TypeOK
    <3>2. WorkerHolds(b)'
      BY <1>2, <2>1, <2>2, <2>3, <3>1 DEF WorkerHolds, OwnSteps, PlannedSteps, View
    <3> QED
      BY <1>2, <2>1, <3>1, <3>2, NoSave, HeldCopies, ViewDerived, WorkerStep DEF FileStep
  <2>4. CASE wpc'[b] # "requeueSave"
    <3>1. wpc'[b] = "ended" /\ seen' = seen
      BY <1>1, <1>10, <2>4 DEF LoadParent, Goto, TypeOK
    <3>2. WorkerHolds(b)'
      BY <1>2, <2>1, <3>1 DEF WorkerHolds, OwnSteps, PlannedSteps
    <3> QED
      BY <1>2, <2>1, <3>1, <3>2, NoSave, HeldCopies, WorkerStep DEF FileStep
  <2> QED
    BY <2>3, <2>4
<1>11. CASE RequeueParent(b)
  <2> DEFINE p == Parent[subj[b]]
             q == Requeued(seen[b][p], subj[b])
  <2>1. wpc[b] = "requeueSave" /\ seen[b] # Nothing /\ IsCorrective(subj[b])
    BY <1>1, <1>11 DEF RequeueParent, WorkerHolds, TypeOK, ReadingSteps
  <2>2. p \in Ids => /\ seen[b][p].status = "blocked" /\ seen[b][p] \in Bead
                     /\ seen[b][p] \in CopiesOf(p)
    BY <1>1, <2>1, HeldCopies DEF WorkerHolds
  <2>3. Exists(disk, subj[b])
    BY <1>1, <1>2 DEF OnFile, Exists, Present
  <2>4. p \in Ids => Kin(p, seen[b][p], q)
    BY <1>2, <2>1, <2>2, <2>3, MainRecords DEF Present
  <2>5. Rewritten
    <3>1. Save(p, q)
      BY <1>11 DEF RequeueParent
    <3> HIDE DEF q
    <3>2. CASE p \in Ids
      BY <1>1, <2>2, <2>4, <3>1, <3>2, KinRewrites DEF Present
    <3>3. CASE p \notin Ids
      BY <1>1, <3>1, <3>3, SaveRewrites DEF TypeOK
    <3> QED
      BY <3>2, <3>3
  <2>6. OthersKept(b) /\ wpc'[b] = "ended" /\ seen'[b] = Nothing /\ UNCHANGED <<mvars, obj, subj>>
    BY <1>1, <1>11 DEF RequeueParent, OthersKept, Goto, TypeOK
  <2>7. WorkerHolds(b)'
    BY <1>2, <2>6 DEF WorkerHolds, OwnSteps, PlannedSteps
  <2> QED
    BY <1>2, <2>5, <2>6, <2>7, HeldCopies, WorkerStep DEF FileStep
<1> QED
  BY <1>4, <1>5, <1>6, <1>7, <1>8, <1>9, <1>10, <1>11

(* A followup the worker settled on is listed, or a free id of its kind.   *)
LEMMA PlannedIds ==
    ASSUME HInv, NEW b \in Ids, seen[b] # Nothing, NEW agent \in FollowupAgents, NEW c \in FollowupIds(b, agent)
    PROVE  IF Exists(seen[b], c) THEN Agent[c] = agent ELSE Kind[c] = SuffixOf(agent)
<1>1. \A x \in ExistingFollowup(seen[b], subj[b], agent) : Exists(seen[b], x) /\ Agent[x] = agent
  BY DEF ExistingFollowup, PlannerOwned, LegacyFollowup
<1>2. Exists(seen[b], c) => Exists(disk, c)
  BY HeldCopies DEF HInv, OnFile, Exists, Present
<1> QED
  BY <1>1, <1>2 DEF FollowupIds, IsFreshChild, Children

(* Synchronizing a followup keeps its history.                             *)
LEMMA SyncedKin ==
    ASSUME NEW x, NEW f \in Bead, NEW source, NEW deps
    PROVE  /\ Kin(x, f, Synced(f, source))
           /\ ~Mutating(x) => Kin(x, f, [Synced(f, source) EXCEPT !.deps = @ \cup deps])
BY DEF Kin, Synced, Present, Bead

(* A followup is rewritten from what was listed, or created.               *)
LEMMA CreateOrSyncFlow ==
    ASSUME HInv, NEW b \in Ids, wpc[b] \in PlannedSteps,
           NEW agent \in FollowupAgents, NEW deps, CreateOrSync(b, agent, deps)
    PROVE  FileStep
<1> DEFINE c == plan[b][agent]
           q == Synced(seen[b][c], obj[b])
<1>1. TypeOK /\ WorkerHolds(b)
  BY DEF HInv
<1>2. c \in Ids /\ seen[b] # Nothing
  BY <1>1 DEF TypeOK, PlannedSteps, ReadingSteps
<1>3. seen[b][c] \in CopiesOf(c) /\ seen[b][c] \in Bead
  BY <1>2, HeldCopies
<1>4. Kin(c, seen[b][c], q)
  BY <1>3, SyncedKin
<1>5. CASE HasFollowup(b, agent)
  <2>1. Present(seen[b][c])
    BY <1>5 DEF HasFollowup, Exists, Present
  <2>2. disk' = disk \/ Save(c, q)
    BY <1>5 DEF CreateOrSync
  <2> HIDE DEF c, q
  <2> QED
    BY <1>1, <1>2, <1>3, <1>4, <2>1, <2>2, NoSave, KinRewrites DEF FileStep
<1>6. CASE ~HasFollowup(b, agent)
  <2>1. Kind[c] # "corrective"
    BY <1>1, <1>6 DEF WorkerHolds, HasFollowup, SuffixOf
  <2>2. disk' = disk \/ Save(c, FollowupBead(obj[b], deps))
    BY <1>6 DEF CreateOrSync
  <2> HIDE DEF c, q
  <2> QED
    BY <1>1, <1>2, <2>1, <2>2, NoSave, NewChildren, OtherChild DEF FileStep
<1> QED
  BY <1>5, <1>6

(* Followups.                                                              *)
LEMMA FollowupFlow ==
    ASSUME HInv, TypeOK', NEW b \in Ids,
           \/ ListForFollowups(b) \/ CreateSubtask(b) \/ RefuseSubtask(b) \/ PlanFollowups(b)
           \/ FollowupTest(b) \/ FollowupDocs(b) \/ FollowupReview(b)
    PROVE  Flow /\ HInv'
<1>1. TypeOK /\ WorkerHolds(b)
  BY DEF HInv
<1>2. wpc[b] # "none" /\ Present(obj[b]) /\ obj[b] \in Bead
  BY HeldCopies DEF ListForFollowups, CreateSubtask, RefuseSubtask, PlanFollowups,
                    FollowupTest, FollowupDocs, FollowupReview
<1>3. CASE ListForFollowups(b)
  <2>1. /\ OthersKept(b) /\ wpc'[b] = "fuPlan" /\ seen'[b] = disk
        /\ UNCHANGED <<disk, mvars, obj, subj>>
    BY <1>1, <1>3 DEF ListForFollowups, OthersKept, Goto, TypeOK
  <2>2. WorkerHolds(b)'
    BY <1>2, <2>1 DEF WorkerHolds, OwnSteps, PlannedSteps
  <2>3. \A x \in Ids : Derived(x, seen'[b][x])
    BY <2>1, CopyMembers DEF Derived
  <2> QED
    BY <1>2, <2>1, <2>2, <2>3, NoSave, HeldCopies, WorkerStep DEF FileStep
<1>4. CASE CreateSubtask(b)
  <2>1. FileStep
    BY <1>1, <1>4, NewChildren, OtherChild DEF CreateSubtask, IsFreshChild, Children
  <2>2. OthersKept(b) /\ wpc'[b] = "fuPlan" /\ UNCHANGED <<mvars, obj, subj, seen>>
    BY <1>1, <1>4 DEF CreateSubtask, OthersKept, TypeOK
  <2>3. WorkerHolds(b)'
    BY <1>2, <2>2 DEF WorkerHolds, OwnSteps, PlannedSteps
  <2> QED
    BY <1>2, <2>1, <2>2, <2>3, HeldCopies, WorkerStep
<1>5. CASE PlanFollowups(b)
  <2>1. PICK t \in FollowupIds(b, "tester"), d \in FollowupIds(b, "documentation"),
             r \in FollowupIds(b, "review") :
                 plan' = [plan EXCEPT ![b] = [NoPlan EXCEPT !["tester"] = t, !["documentation"] = d, !["review"] = r]]
    BY <1>5 DEF PlanFollowups
  <2>2. /\ OthersKept(b) /\ wpc'[b] = "fuTest" /\ UNCHANGED <<disk, mvars, obj, subj, seen>>
        /\ plan'[b] = [NoPlan EXCEPT !["tester"] = t, !["documentation"] = d, !["review"] = r]
    BY <1>1, <1>5, <2>1 DEF PlanFollowups, OthersKept, Goto, TypeOK
  <2>3. \A a \in FollowupAgents :
            IF Exists(seen[b], plan'[b][a]) THEN Agent[plan'[b][a]] = a ELSE Kind[plan'[b][a]] = SuffixOf(a)
    <3>1. seen[b] # Nothing
      BY <1>1, <1>5 DEF PlanFollowups, TypeOK, ReadingSteps
    <3> QED
      BY <2>2, <3>1, PlannedIds DEF NoPlan, FollowupAgents
  <2>4. WorkerHolds(b)'
    BY <1>2, <2>2, <2>3 DEF WorkerHolds, OwnSteps
  <2> QED
    BY <1>2, <2>2, <2>4, NoSave, HeldCopies, WorkerStep DEF FileStep
<1>6. ASSUME NEW step \in {"fuDocs", "fuReview"}, Goto(b, step), wpc[b] \in PlannedSteps,
             UNCHANGED <<mvars, obj, subj, res, seen, plan>>, FileStep
      PROVE  Flow /\ HInv'
  <2>1. WorkerHolds(b)'
    BY <1>1, <1>2, <1>6 DEF WorkerHolds, Goto, OwnSteps, PlannedSteps, TypeOK
  <2> QED
    BY <1>2, <1>6, <2>1, SameCopies
<1>7. CASE FollowupTest(b)
  <2>1. FileStep
    BY <1>7, CreateOrSyncFlow DEF FollowupTest, PlannedSteps, FollowupAgents
  <2> QED
    BY <1>6, <1>7, <2>1 DEF FollowupTest, PlannedSteps
<1>8. CASE FollowupDocs(b)
  <2>1. FileStep
    BY <1>8, CreateOrSyncFlow DEF FollowupDocs, PlannedSteps, FollowupAgents
  <2> QED
    BY <1>6, <1>8, <2>1 DEF FollowupDocs, PlannedSteps
<1>9. CASE FollowupReview(b)
  <2> DEFINE c == plan[b]["review"]
             q == [Synced(seen[b][c], obj[b]) EXCEPT !.deps = @ \cup ReviewDeps(b)]
  <2>1. wpc[b] \in PlannedSteps /\ "review" \in FollowupAgents
    BY <1>9 DEF FollowupReview, PlannedSteps, FollowupAgents
  <2>2. c \in Ids /\ seen[b] # Nothing
    BY <1>1, <2>1 DEF TypeOK, PlannedSteps, ReadingSteps
  <2>3. seen[b][c] \in CopiesOf(c) /\ seen[b][c] \in Bead
    BY <2>2, HeldCopies
  <2>4. HasFollowup(b, "review") => Kin(c, seen[b][c], q)
    <3>1. HasFollowup(b, "review") => ~Mutating(c)
      BY <1>1, <2>1 DEF HasFollowup, WorkerHolds, Mutating, MutatingAgents
    <3> QED
      BY <2>3, <3>1, SyncedKin
  <2>5. \/ CreateOrSync(b, "review", ReviewDeps(b))
        \/ HasFollowup(b, "review") /\ (disk' = disk \/ Save(c, q))
    BY <1>9 DEF FollowupReview
  <2>6. FileStep
    <3>1. CASE CreateOrSync(b, "review", ReviewDeps(b))
      BY <2>1, <3>1, CreateOrSyncFlow
    <3>2. CASE HasFollowup(b, "review") /\ Save(c, q)
      <4>1. Present(seen[b][c])
        BY <3>2 DEF HasFollowup, Exists, Present
      <4> HIDE DEF c, q
      <4> QED
        BY <1>1, <2>2, <2>3, <2>4, <3>2, <4>1, KinRewrites DEF FileStep
    <3> QED
      BY <2>5, <3>1, <3>2, NoSave DEF FileStep
  <2>7. /\ OthersKept(b) /\ wpc'[b] \in {"raised", "ended"} /\ seen'[b] = Nothing
        /\ UNCHANGED <<mvars, obj, subj>>
    BY <1>1, <1>9 DEF FollowupReview, OthersKept, Goto, TypeOK
  <2>8. WorkerHolds(b)'
    BY <1>2, <2>7 DEF WorkerHolds, OwnSteps, PlannedSteps
  <2> QED
    BY <1>2, <2>6, <2>7, <2>8, HeldCopies, WorkerStep
<1>10. CASE RefuseSubtask(b)
  <2>1. OthersKept(b) /\ wpc'[b] = "raised" /\ UNCHANGED <<disk, mvars, obj, subj, seen>>
    BY <1>1, <1>10 DEF RefuseSubtask, OthersKept, Goto, TypeOK
  <2>2. WorkerHolds(b)'
    BY <1>2, <2>1 DEF WorkerHolds, OwnSteps, PlannedSteps
  <2> QED
    BY <1>2, <2>1, <2>2, NoSave, HeldCopies, WorkerStep DEF FileStep
<1> QED
  BY <1>3, <1>4, <1>5, <1>7, <1>8, <1>9, <1>10

-----------------------------------------------------------------------------
(* Operators act on the files as they are; a kill forgets every copy.      *)
LEMMA OtherFlow ==
    ASSUME HInv, TypeOK', StartRun \/ Operator \/ Crash \/ Rest \/ UNCHANGED vars
    PROVE  Flow /\ HInv'
<1>1. TypeOK /\ MainHolds
  BY DEF HInv
<1>2. ASSUME UNCHANGED <<snap, wvars>>, FileStep, MainHolds' PROVE Flow /\ HInv'
  BY <1>1, <1>2, SnapCopies, MainStep
<1>3. CASE StartRun
  BY <1>1, <1>2, <1>3, NoSave DEF StartRun, MainHolds, FileStep
<1>4. ASSUME NEW b \in Ids, OperatorRetry(b) PROVE Flow /\ HInv'
  <2> DEFINE q == [disk[b] EXCEPT !.status = "ready", !.lease = FALSE, !.reason = "none"]
  <2>1. disk[b] \in Bead /\ disk[b] \in CopiesOf(b) /\ Present(disk[b])
    BY <1>1, <1>4, StoreTypes, CopyMembers DEF OperatorRetry, TypeOK, Exists, Present
  <2>2. Kin(b, disk[b], q)
    BY <2>1 DEF Kin, Bead, Present
  <2>3. Save(b, q) /\ UNCHANGED <<mvars, wvars>>
    BY <1>4 DEF OperatorRetry
  <2> HIDE DEF q
  <2>4. Rewritten
    BY <1>1, <2>1, <2>2, <2>3, KinRewrites
  <2> QED
    BY <1>1, <1>2, <2>3, <2>4 DEF mvars, wvars, MainHolds, FileStep
<1>5. ASSUME NEW b \in Ids, NEW s \in {"ready", "blocked", "done"}, OperatorStatus(b, s)
      PROVE  Flow /\ HInv'
  <2> DEFINE q == [disk[b] EXCEPT !.status = s, !.reason = IF s = "blocked" THEN @ ELSE "none",
                                  !.lease = IF s = "blocked" THEN @ ELSE FALSE]
  <2>1. disk[b] \in Bead /\ disk[b] \in CopiesOf(b) /\ Present(disk[b])
    BY <1>1, <1>5, StoreTypes, CopyMembers DEF OperatorStatus, AllowedFrom, TypeOK, Present
  <2>2. ops' # ops
    BY <1>1, <1>5 DEF OperatorStatus, TypeOK
  <2>3. Kin(b, disk[b], q)
    BY <2>1, <2>2 DEF Kin, Bead, Present
  <2>4. Save(b, q) /\ UNCHANGED <<mvars, wvars>>
    BY <1>5 DEF OperatorStatus
  <2> HIDE DEF q
  <2>5. Rewritten
    BY <1>1, <2>1, <2>3, <2>4, KinRewrites
  <2> QED
    BY <1>1, <1>2, <2>4, <2>5 DEF mvars, wvars, MainHolds, FileStep
<1>6. CASE Crash
  <2>1. \A x \in Ids : Derived(x, snap'[x])
    BY <1>6, ViewDerived DEF Crash
  <2>2. MainHolds'
    BY <1>6 DEF Crash, MainHolds
  <2> QED
    BY <1>6, <2>1, <2>2, ReapFlow DEF Crash
<1>7. CASE Rest \/ UNCHANGED vars
  <2>1. UNCHANGED <<disk, mvars, wvars>>
    BY <1>7 DEF Rest, vars
  <2> QED
    BY <1>1, <1>2, <2>1, NoSave DEF mvars, wvars, MainHolds, FileStep
<1> QED
  BY <1>3, <1>4, <1>5, <1>6, <1>7 DEF Operator

(* Whatever happens, every copy of a record comes from one there was.      *)
LEMMA StepFlow ==
    ASSUME HInv, [Next]_vars
    PROVE  Flow /\ HInv'
<1>1. TypeOK'
  BY TypeStep DEF HInv
<1>2. CASE Workers
  BY <1>1, <1>2, HeadFlow, OutcomeFlow, RepairFlow, FollowupFlow DEF Workers, Worker
<1> QED
  BY <1>1, <1>2, MainFlow, OtherFlow DEF Next

(* At first there are the files and nothing else.                          *)
LEMMA InitFlow ==
    ASSUME Init
    PROVE  /\ HInv
           /\ \A x \in Ids : \A r \in CopiesOf(x) : r = NoBead \/ r = disk[x]
<1>1. TypeOK /\ MainHolds /\ \A b \in Ids : WorkerHolds(b)
  BY InitialTypes DEF Init, Idle, MainHolds, WorkerHolds, PlannedSteps
<1>2. \A x \in Ids : \A r \in CopiesOf(x) : r = NoBead \/ r = disk[x]
  BY CopyMembers DEF Init, Idle, EmptyStore
<1>3. OnFile
  BY <1>2 DEF OnFile, NoBead, Present
<1> QED
  BY <1>1, <1>2, <1>3 DEF HInv

-----------------------------------------------------------------------------
(* Who gets to create a corrective.                                        *)

(* The main thread, for a bead whose re-evaluation asked for one.          *)
LEMMA MainEnters ==
    ASSUME TypeOK, [Next]_vars, mpc' = "reevalCreate"
    PROVE  \/ mpc = "reevalCreate" /\ target' = target
           \/ \E b \in todo : /\ mpc = "reeval" /\ target' = b /\ UNCHANGED <<disk, wpc>>
                             /\ CorrectiveDecision(disk, b, snap[b]) = "create"
<1>1. CASE Main
  <2>1. ASSUME NEW b \in Ids, ReevaluateCorrective(b)
        PROVE  \E x \in todo : /\ mpc = "reeval" /\ target' = x /\ UNCHANGED <<disk, wpc>>
                              /\ CorrectiveDecision(disk, x, snap[x]) = "create"
    BY <2>1 DEF ReevaluateCorrective, Examine, wvars
  <2>2. CASE BeginCycle \/ ReevalCreate \/ ReevalLink \/ BeginFill \/ EndFill \/ WaitCompletion \/ Abort
    BY <2>2 DEF BeginCycle, ReevalCreate, ReevalLink, BeginFill, EndFill, EndCycle, Submit, WaitCompletion, Abort
  <2>3. ASSUME NEW b \in Ids, RetryTransient(b) \/ DeferBead(b) \/ SelectBead(b)
        PROVE  mpc = "reevalCreate" /\ target' = target
    BY <2>3 DEF RetryTransient, Examine, DeferBead, SelectBead, NextCandidate
  <2> QED
    BY <1>1, <2>1, <2>2, <2>3 DEF Main
<1>2. CASE Workers
  BY <1>2, WorkerMoves DEF Workers, Moves, mvars
<1>3. CASE StartRun \/ Operator \/ Crash \/ Rest \/ UNCHANGED vars
  BY <1>3 DEF StartRun, Operator, OperatorRetry, OperatorStatus, Crash, Rest, vars, mvars
<1> QED
  BY <1>1, <1>2, <1>3 DEF Next

(* A worker, for its own bead, once it has seen that there is none.        *)
LEMMA WorkerEnters ==
    ASSUME TypeOK, [Next]_vars, NEW b \in Ids, wpc'[b] \in {"corrCheck", "corrCreate"}
    PROVE  \/ wpc'[b] = wpc[b]
           \/ FinalizeBlocked(b) /\ wpc'[b] = "corrCheck"
           \/ CheckCorrectives(b) /\ wpc'[b] = "corrCreate"
<1>1. CASE Main
  <2>1. ASSUME UNCHANGED wpc PROVE wpc'[b] = wpc[b]
    BY <2>1
  <2>2. ASSUME NEW W, Reap(W) PROVE wpc'[b] = wpc[b]
    BY <2>2 DEF Reap
  <2>3. CASE EndFill
    BY <2>3 DEF EndFill, EndCycle, Submit, wvars
  <2> QED
    BY <1>1, <2>1, <2>2, <2>3
    DEF Main, BeginCycle, RetryTransient, ReevaluateCorrective, ReevalCreate, ReevalLink, BeginFill,
        DeferBead, SelectBead, WaitCompletion, Abort, wvars
<1>2. ASSUME NEW w \in Ids, Worker(w), w # b PROVE wpc'[b] = wpc[b]
  BY <1>2, WorkerMoves DEF Moves, TypeOK
<1>3. CASE Worker(b)
  <2>1. CASE StartWithoutWorktree(b) \/ Start(b) \/ SaveFeatureRoot(b) \/ Launch(b) \/ AgentReturns(b)
    BY <2>1 DEF StartWithoutWorktree, Start, SaveFeatureRoot, Launch, AgentReturns, Goto, TypeOK
  <2>2. CASE UnsupportedVerdict(b) \/ FinalizeFailed(b) \/ CommitFails(b) \/ FinalizeDone(b)
    BY <2>2 DEF UnsupportedVerdict, FinalizeFailed, CommitFails, FinalizeDone, AfterDone, Goto, TypeOK
  <2>3. CASE FinalizeBlocked(b)
    BY <2>3 DEF FinalizeBlocked, Goto, TypeOK
  <2>4. CASE CheckCorrectives(b)
    BY <2>4 DEF CheckCorrectives, Goto, TypeOK
  <2>5. CASE CreateCorrective(b) \/ LinkCorrective(b) \/ CreateRecovery(b) \/ SaveFailed(b)
             \/ LoadOriginal(b) \/ CompleteOriginal(b) \/ LoadParent(b) \/ RequeueParent(b)
    BY <2>5 DEF CreateCorrective, LinkCorrective, CreateRecovery, SaveFailed, LoadOriginal,
                CompleteOriginal, LoadParent, RequeueParent, AfterDone, Goto, TypeOK
  <2>6. CASE ListForFollowups(b) \/ CreateSubtask(b) \/ RefuseSubtask(b) \/ PlanFollowups(b)
             \/ FollowupTest(b) \/ FollowupDocs(b) \/ FollowupReview(b)
    BY <2>6 DEF ListForFollowups, CreateSubtask, RefuseSubtask, PlanFollowups, FollowupTest, FollowupDocs,
                FollowupReview, Goto, TypeOK
  <2> QED
    BY <1>3, <2>1, <2>2, <2>3, <2>4, <2>5, <2>6 DEF Worker
<1>4. CASE StartRun \/ Operator \/ Crash \/ Rest \/ UNCHANGED vars
  BY <1>4 DEF StartRun, Operator, OperatorRetry, OperatorStatus, Crash, Reap, Rest, vars, wvars
<1> QED
  BY <1>1, <1>2, <1>3, <1>4 DEF Next, Workers

(* The correctives of a bead only become more, one at a time.              *)
LEMMA CorrectivesGrow ==
    ASSUME HInv, Flow, NEW x \in Ids
    PROVE  /\ CorrectiveChildren(disk, x) \subseteq CorrectiveChildren(disk', x)
           /\ \/ CorrectiveChildren(disk', x) = CorrectiveChildren(disk, x)
              \/ /\ MainMakes(x) \/ WorkerMakes(x)
                 /\ \E c \in Ids : /\ CorrectiveChildren(disk', x) = CorrectiveChildren(disk, x) \cup {c}
                                   /\ ~Exists(disk, c) /\ Parent[c] = x /\ Kind[c] = "corrective"
<1>1. \A c \in Ids : Present(disk[c]) => Present(disk'[c])
  BY FlowCopies DEF HInv
<1>2. CASE Rewritten
  <2>1. \A c \in Ids : Present(disk'[c]) => Present(disk[c])
    BY <1>2 DEF Rewritten, Derived, HInv, OnFile, Kin, NoBead, Present
  <2> QED
    BY <1>1, <2>1 DEF CorrectiveChildren, Children, Exists, Present
<1>3. ASSUME NEW c \in Ids, Created(c)
      PROVE  \/ CorrectiveChildren(disk', x) = CorrectiveChildren(disk, x)
             \/ /\ MainMakes(x) \/ WorkerMakes(x)
                /\ CorrectiveChildren(disk', x) = CorrectiveChildren(disk, x) \cup {c}
                /\ ~Exists(disk, c) /\ Parent[c] = x /\ Kind[c] = "corrective"
  <2>1. CASE c \in Children(x, "corrective")
    BY <1>3, <2>1 DEF Created, CorrectiveChildren, Children, Exists, New
  <2>2. CASE c \notin Children(x, "corrective")
    BY <1>3, <2>2 DEF Created, CorrectiveChildren, Children, Exists
  <2> QED
    BY <2>1, <2>2
<1>4. CorrectiveChildren(disk, x) \subseteq CorrectiveChildren(disk', x)
  BY <1>1 DEF CorrectiveChildren, Children, Exists, Present
<1> QED
  BY <1>2, <1>3, <1>4 DEF Flow, FileStep

-----------------------------------------------------------------------------
(* A human is asked when the budget is spent.                              *)

MayHave(x) == ~IsCorrective(x) /\ Agent[x] # "investigator"
Spent(d, x) == Cardinality(CorrectiveChildren(d, x)) >= MaxCorrective

(* Only beads that may have correctives get them; and whoever bears a copy *)
(* that asks for a human has spent its budget, or has had a recovery.      *)
Plannable ==
    /\ \A x \in Ids : CorrectiveChildren(disk, x) # {} => MayHave(x)
    /\ mpc = "reevalCreate" => MayHave(target)
    /\ \A b \in Ids : wpc[b] \in {"corrCheck", "corrCreate"} => MayHave(b)
Owed == \A x \in Ids : \A r \in CopiesOf(x) : r.human => r.recov \/ Spent(disk, x)
EInv == HInv /\ Plannable /\ Owed

(* What an instance must start from: the histories of its beads are such   *)
(* as the scheduler leaves them.                                           *)
FiniteIds == IsFiniteSet(Ids)
StartsFairly ==
    \A store \in InitStores, x \in Ids :
        /\ CorrectiveChildren(store, x) # {} => MayHave(x)
        /\ store[x].human => store[x].recov \/ Spent(store, x)

(* Correctives can be counted.                                             *)
LEMMA CountCorrectives ==
    ASSUME FiniteIds, NEW d, NEW x
    PROVE  /\ IsFiniteSet(CorrectiveChildren(d, x))
           /\ Cardinality(CorrectiveChildren(d, x)) \in Nat
<1>1. CorrectiveChildren(d, x) \subseteq Ids
  BY DEF CorrectiveChildren, Children
<1> QED
  BY <1>1, FS_Subset, FS_CardinalityType DEF FiniteIds

(* A spent budget stays spent.                                             *)
LEMMA StaysSpent ==
    ASSUME FiniteIds, HInv, Flow, NEW x \in Ids, Spent(disk, x)
    PROVE  Spent(disk', x)
<1>1. CorrectiveChildren(disk, x) \subseteq CorrectiveChildren(disk', x)
  BY CorrectivesGrow
<1>2. IsFiniteSet(CorrectiveChildren(disk', x))
  BY CountCorrectives
<1>3. Cardinality(CorrectiveChildren(disk, x)) <= Cardinality(CorrectiveChildren(disk', x))
  BY <1>1, <1>2, FS_Subset
<1> QED
  BY <1>3, CountCorrectives, StoreAssumption DEF Spent

(* The decision to escalate is taken when the budget is spent, unless a    *)
(* recovery keeps the bead from planning another corrective.               *)
LEMMA EscalationSpent ==
    ASSUME FiniteIds, Plannable, NEW x \in Ids, NEW r, CorrectiveDecision(disk, x, r) = "escalate"
    PROVE  r.recov \/ Spent(disk, x)
<1> DEFINE children == CorrectiveChildren(disk, x)
           latest == LatestDone(disk, x)
           mayPlan == CanPlanCorrective(x, r)
<1>1. Cardinality(children) \in Nat /\ MaxCorrective \in Nat
  BY CountCorrectives, StoreAssumption
<1>2. latest # {} => children # {}
  BY DEF LatestDone
<1>3. children # {} => mayPlan \/ r.recov
  BY DEF Plannable, MayHave, CanPlanCorrective
<1>4. CorrectiveDecision(disk, x, r) =
        CASE OpenCorrectives(disk, x) # {} -> "leave"
          [] OpenCorrectives(disk, x) = {} /\ latest # {} ->
                CASE \E c \in latest : ~AlreadyRetried(r, c) -> "retry"
                  [] (\A c \in latest : AlreadyRetried(r, c)) /\ Cardinality(children) < MaxCorrective /\ mayPlan -> "create"
                  [] OTHER -> IF r.human THEN "leave" ELSE "escalate"
          [] OTHER ->
                CASE children = {} /\ mayPlan -> "create"
                  [] ~(children = {} /\ mayPlan) /\ Cardinality(children) >= MaxCorrective /\ ~r.human -> "escalate"
                  [] OTHER -> "leave"
  BY DEF CorrectiveDecision, DecisionWithin
<1> HIDE DEF children, latest, mayPlan
<1>5. CASE latest # {}
  BY <1>1, <1>2, <1>3, <1>4, <1>5 DEF Spent, children
<1>6. CASE latest = {}
  BY <1>1, <1>4, <1>6 DEF Spent, children
<1> QED
  BY <1>5, <1>6

(* Beads that may not have correctives get none.                           *)
LEMMA PlannableStep ==
    ASSUME HInv, Plannable, [Next]_vars
    PROVE  Plannable'
<1>1. TypeOK /\ Flow /\ mpc \in MainSteps
  BY StepFlow DEF HInv, TypeOK
<1>2. ASSUME NEW x \in Ids, CorrectiveChildren(disk', x) # {} PROVE MayHave(x)
  BY <1>1, <1>2, CorrectivesGrow DEF Plannable, MainMakes, WorkerMakes
<1>3. ASSUME mpc' = "reevalCreate" PROVE MayHave(target')
  <2>1. CASE mpc = "reevalCreate" /\ target' = target
    BY <2>1 DEF Plannable
  <2>2. ASSUME NEW b \in todo, target' = b, CorrectiveDecision(disk, b, snap[b]) = "create" PROVE MayHave(b)
    BY <2>2 DEF CorrectiveDecision, DecisionWithin, CanPlanCorrective, MayHave
  <2> QED
    BY <1>1, <1>3, <2>1, <2>2, MainEnters
<1>4. ASSUME NEW b \in Ids, wpc'[b] \in {"corrCheck", "corrCreate"} PROVE MayHave(b)
  <2>1. CASE wpc'[b] = wpc[b]
    BY <1>4, <2>1 DEF Plannable
  <2>2. CASE FinalizeBlocked(b) /\ wpc'[b] = "corrCheck"
    BY <1>1, <2>2 DEF FinalizeBlocked, Goto, TypeOK, CanPlanCorrective, MayHave
  <2>3. CASE CheckCorrectives(b)
    BY <2>3 DEF CheckCorrectives, Plannable
  <2> QED
    BY <1>1, <1>4, <2>1, <2>2, <2>3, WorkerEnters
<1> QED
  BY <1>2, <1>3, <1>4 DEF Plannable, MayHave

(* Every copy that asks for a human does so with reason.                   *)
LEMMA OwedStep ==
    ASSUME FiniteIds, EInv, [Next]_vars
    PROVE  Owed'
<1>1. HInv /\ Plannable /\ Owed /\ Flow /\ TypeOK
  BY StepFlow DEF EInv, HInv
<1> SUFFICES ASSUME NEW x \in Ids, NEW q \in CopiesOf(x)', q.human
             PROVE  q.recov \/ Spent(disk', x)
  BY DEF Owed, Spent
<1>2. Derived(x, q)
  BY <1>1, FlowCopies DEF HInv, New
<1>3. CASE q \in CopiesOf(x)
  BY <1>1, <1>3, StaysSpent DEF Owed
<1>4. ASSUME NEW r \in CopiesOf(x), Kin(x, r, q) PROVE q.recov \/ Spent(disk', x)
  <2>1. r.human => r.recov \/ Spent(disk, x)
    BY <1>1 DEF Owed
  <2>2. CorrectiveDecision(disk, x, r) = "escalate" => r.recov \/ Spent(disk, x)
    BY <1>1, EscalationSpent
  <2>3. r.recov \/ Spent(disk, x)
    BY <1>4, <2>1, <2>2 DEF Kin
  <2> QED
    BY <1>1, <1>4, <2>3, StaysSpent DEF Kin
<1> QED
  BY <1>2, <1>3, <1>4 DEF Derived, NoBead

(* The invariant holds of every instance that starts fairly.               *)
LEMMA EscalationInvariant ==
    ASSUME FiniteIds, StartsFairly
    PROVE  Spec => []EInv
<1>1. ASSUME Init PROVE EInv
  <2>1. HInv /\ \A x \in Ids : \A r \in CopiesOf(x) : r = NoBead \/ r = disk[x]
    BY <1>1, InitFlow
  <2>2. disk \in InitStores /\ mpc = "idle" /\ \A b \in Ids : wpc[b] = "none"
    BY <1>1 DEF Init, Idle
  <2>3. Plannable
    BY <2>2 DEF Plannable, StartsFairly
  <2>4. Owed
    BY <2>1, <2>2 DEF Owed, StartsFairly, NoBead
  <2> QED
    BY <2>1, <2>3, <2>4 DEF EInv
<1>2. EInv /\ [Next]_vars => EInv'
  BY StepFlow, PlannableStep, OwedStep DEF EInv
<1> QED
  BY <1>1, <1>2, PTL DEF Spec

(* A bead asks for a human only if it has had as many correctives as it    *)
(* may have, or a recovery (which _can_plan_corrective takes for a reason  *)
(* not to spend a corrective on it).                                       *)
EscalatedOrRecovered == \A b \in Ids : disk[b].human => disk[b].recov \/ Spent(disk, b)

(* Whatever the workers, the main thread, operators and kills do to each   *)
(* other's records, a human is asked only when the budget is spent, or the *)
(* bead has had a recovery (_escalate_blocked_bead).                       *)
THEOREM EscalationJustified ==
    ASSUME FiniteIds, StartsFairly
    PROVE  Spec => []EscalatedOrRecovered
<1>1. EInv => EscalatedOrRecovered
  BY CopyMembers DEF EInv, Owed, EscalatedOrRecovered
<1> QED
  BY <1>1, EscalationInvariant, PTL

(* Agents that always give structured output, and a store without          *)
(* recoveries.                                                             *)
NeverRecovered ==
    /\ \A b \in Ids : "no_output" \notin Outcomes[b]
    /\ \A store \in InitStores, b \in Ids : ~store[b].recov
NoRecovery == \A x \in Ids : \A r \in CopiesOf(x) : ~r.recov

(* Where there are no recoveries, a human is asked only when the budget is *)
(* spent: the event says "Exceeded corrective attempt budget".             *)
THEOREM EscalationSpendsBudget ==
    ASSUME FiniteIds, StartsFairly, NeverRecovered
    PROVE  Spec => []EscalatedAfterBudget
<1>1. ASSUME Init PROVE NoRecovery
  <2>1. \A x \in Ids : \A r \in CopiesOf(x) : r = NoBead \/ r = disk[x]
    BY <1>1, InitFlow
  <2>2. disk \in InitStores
    BY <1>1 DEF Init, Idle
  <2> QED
    BY <2>1, <2>2 DEF NeverRecovered, NoRecovery, NoBead
<1>2. EInv /\ NoRecovery /\ [Next]_vars => NoRecovery'
  <2> SUFFICES ASSUME EInv, NoRecovery, [Next]_vars, NEW x \in Ids, NEW q \in CopiesOf(x)'
               PROVE  ~q.recov
    BY DEF NoRecovery
  <2>1. HInv /\ Flow
    BY StepFlow DEF EInv
  <2>2. Derived(x, q) \/ New(q)
    BY <2>1, FlowCopies DEF HInv
  <2>3. wpc[x] = "final" => res[x].outcome # "no_output"
    BY <2>1 DEF HInv, WorkerHolds, NeverRecovered
  <2> QED
    BY <2>2, <2>3 DEF Derived, Kin, New, NoBead, NoRecovery
<1>3. EInv /\ NoRecovery => EscalatedAfterBudget
  BY CopyMembers DEF EInv, Owed, Spent, NoRecovery, EscalatedAfterBudget
<1> QED
  BY <1>1, <1>2, <1>3, EscalationInvariant, PTL DEF Spec

-----------------------------------------------------------------------------
(* No bead gets more correctives than the budget allows.                   *)

Attempts(x) == Cardinality(CorrectiveChildren(disk, x))

(* A worker about to create a corrective saw that there was none.  Until   *)
(* it does, the main thread may create one; but not two, because a second  *)
(* one needs a copy that is blocked although it records the retry of the   *)
(* first, and only the same worker blocks the bead again.                  *)
Counted ==
    /\ \A x \in Ids : Attempts(x) <= MaxCorrective
    /\ mpc = "reevalCreate" => /\ Attempts(target) < MaxCorrective
                               /\ wpc[target] = "corrCreate" => CorrectiveChildren(disk, target) = {}
    /\ \A b \in Ids : wpc[b] = "corrCreate" =>
           /\ Attempts(b) <= 1
           /\ \A r \in CopiesOf(b) : r.status = "blocked" =>
                  \A c \in CorrectiveChildren(disk, b) : ~AlreadyRetried(r, c)
RetriedKnown ==
    \A x \in Ids : \A r \in CopiesOf(x) : \A c \in r.retried :
        Exists(disk, c) /\ Parent[c] = x /\ IsCorrective(c)
BInv == HInv /\ Plannable /\ RetriedKnown /\ Counted

(* The instance starts within the budget, which allows for two, and is     *)
(* left to the scheduler.                                                  *)
StartsWithinBudget ==
    \A store \in InitStores, x \in Ids :
        /\ Cardinality(CorrectiveChildren(store, x)) <= MaxCorrective
        /\ CorrectiveChildren(store, x) # {} => MayHave(x)
        /\ \A c \in store[x].retried : Exists(store, c) /\ Parent[c] = x /\ IsCorrective(c)
BudgetOfTwo == MaxCorrective >= 2
NoOperator == MaxOps = 0

(* Retries that are recorded are those of correctives that exist.          *)
LEMMA RetriedStep ==
    ASSUME HInv, RetriedKnown, [Next]_vars
    PROVE  RetriedKnown'
<1>1. HInv /\ Flow
  BY StepFlow
<1>2. \A c : Exists(disk, c) => Exists(disk', c)
  BY <1>1, FlowCopies DEF HInv, Exists, Present
<1> SUFFICES ASSUME NEW x \in Ids, NEW q \in CopiesOf(x)', NEW c \in q.retried
             PROVE  Exists(disk, c) /\ Parent[c] = x /\ IsCorrective(c)
  BY <1>2 DEF RetriedKnown, IsCorrective
<1>3. Derived(x, q)
  BY <1>1, FlowCopies DEF HInv, New
<1> QED
  BY <1>3 DEF Derived, Kin, NoBead, RetriedKnown

(* A corrective that has just been created has not been retried.           *)
LEMMA FirstUnretried ==
    ASSUME HInv, RetriedKnown, NEW x \in Ids, MayHave(x), CorrectiveChildren(disk, x) = {},
           NEW r \in CopiesOf(x), NEW c, ~Exists(disk, c), Parent[c] = x
    PROVE  ~AlreadyRetried(r, c)
<1>1. \A o \in r.retried : Exists(disk, o) /\ Parent[o] = x /\ o \in CorrectiveIds
  BY DEF RetriedKnown, IsCorrective
<1>2. \A o \in r.retried : Kind[o] = "corrective"
  BY <1>1, StoreAssumption DEF MayHave, IsCorrective
<1>3. r.retried = {}
  BY <1>1, <1>2 DEF CorrectiveChildren, Children, Exists
<1> QED
  BY <1>3 DEF AlreadyRetried

(* One corrective more is one attempt more.                                *)
LEMMA OneMore ==
    ASSUME FiniteIds, NEW x \in Ids, NEW c, ~Exists(disk, c),
           CorrectiveChildren(disk', x) = CorrectiveChildren(disk, x) \cup {c}
    PROVE  Attempts(x)' = Attempts(x) + 1
<1>1. c \notin CorrectiveChildren(disk, x) /\ IsFiniteSet(CorrectiveChildren(disk, x))
  BY CountCorrectives DEF CorrectiveChildren
<1> QED
  BY <1>1, FS_AddElement DEF Attempts

(* The main thread decides for another corrective within the budget, and   *)
(* while a worker may still create one only if there is none.              *)
LEMMA DecidesWithinBudget ==
    ASSUME FiniteIds, BudgetOfTwo, BInv, NEW b \in todo, mpc = "reeval",
           CorrectiveDecision(disk, b, snap[b]) = "create"
    PROVE  /\ Attempts(b) < MaxCorrective
           /\ wpc[b] = "corrCreate" => CorrectiveChildren(disk, b) = {}
<1> DEFINE children == CorrectiveChildren(disk, b)
           latest == LatestDone(disk, b)
           r == snap[b]
<1>1. b \in Ids /\ r.status = "blocked" /\ r \in CopiesOf(b)
  BY SnapCopies DEF BInv, HInv, MainHolds, TypeOK
<1>2. \/ children = {}
      \/ latest # {} /\ (\A c \in latest : AlreadyRetried(r, c)) /\ Attempts(b) < MaxCorrective
  BY DEF CorrectiveDecision, DecisionWithin, Attempts
<1>3. latest \subseteq children
  BY DEF LatestDone
<1>4. children = {} => Attempts(b) = 0
  BY FS_EmptySet DEF Attempts
<1>5. wpc[b] = "corrCreate" => \A c \in children : ~AlreadyRetried(r, c)
  BY <1>1 DEF BInv, Counted
<1> HIDE DEF children, latest, r
<1>6. wpc[b] = "corrCreate" => children = {}
  BY <1>2, <1>3, <1>5
<1>7. Attempts(b) < MaxCorrective
  BY <1>2, <1>4, StoreAssumption DEF BudgetOfTwo
<1> QED
  BY <1>6, <1>7 DEF children

(* Without operators no step counts as one of theirs.                      *)
LEMMA OpsStill ==
    ASSUME NoOperator, TypeOK, [Next]_vars
    PROVE  ops' = ops
<1>1. CASE Main
  BY <1>1 DEF Main, BeginCycle, RetryTransient, ReevaluateCorrective, ReevalCreate, ReevalLink,
              BeginFill, DeferBead, SelectBead, EndFill, WaitCompletion, Abort, bounds
<1>2. CASE Workers
  BY <1>2, WorkerMoves DEF Workers, Moves, bounds
<1>3. ~Operator
  <2>1. ~(ops < MaxOps)
    BY DEF NoOperator, TypeOK
  <2> QED
    BY <2>1 DEF Operator, OperatorRetry, OperatorStatus
<1> QED
  BY <1>1, <1>2, <1>3 DEF Next, StartRun, Crash, Rest, vars, bounds

(* While a worker is about to create a corrective, no copy of its bead is  *)
(* blocked and yet records the retry of a corrective there is.             *)
LEMMA UnretriedStep ==
    ASSUME FiniteIds, NoOperator, BInv, [Next]_vars, NEW b \in Ids,
           wpc[b] = "corrCreate", wpc'[b] = "corrCreate",
           NEW q \in CopiesOf(b)', q.status = "blocked", NEW c \in CorrectiveChildren(disk', b)
    PROVE  ~AlreadyRetried(q, c)
<1>1. HInv /\ Flow /\ TypeOK
  BY StepFlow DEF BInv, HInv
<1>2. PICK r \in CopiesOf(b) : r.status = "blocked" /\ q.retried = r.retried
  <2>1. Derived(b, q)
    BY <1>1, FlowCopies DEF HInv, New
  <2> QED
    BY <1>1, <2>1, OpsStill DEF Derived, Kin, NoBead
<1>3. AlreadyRetried(q, c) <=> AlreadyRetried(r, c)
  BY <1>2 DEF AlreadyRetried
<1>4. CASE c \in CorrectiveChildren(disk, b)
  BY <1>2, <1>3, <1>4 DEF BInv, Counted
<1>5. CASE c \notin CorrectiveChildren(disk, b)
  <2>1. /\ MainMakes(b) \/ WorkerMakes(b)
        /\ ~Exists(disk, c) /\ Parent[c] = b
    BY <1>1, <1>5, CorrectivesGrow
  <2>2. CorrectiveChildren(disk, b) = {} /\ MayHave(b)
    BY <1>1, <2>1 DEF MainMakes, WorkerMakes, BInv, Counted, Plannable, TypeOK
  <2> QED
    BY <1>2, <1>3, <2>1, <2>2, FirstUnretried DEF BInv
<1> QED
  BY <1>4, <1>5

(* The count of attempts.                                                  *)
LEMMA CountedStep ==
    ASSUME FiniteIds, BudgetOfTwo, NoOperator, BInv, [Next]_vars
    PROVE  Counted'
<1>1. HInv /\ Flow /\ TypeOK /\ Counted /\ MaxCorrective \in Nat /\ MaxCorrective >= 2
  BY StepFlow, StoreAssumption DEF BInv, HInv, BudgetOfTwo
<1>2. \A x \in Ids : Attempts(x) \in Nat
  BY CountCorrectives DEF Attempts
<1>3. ASSUME NEW x \in Ids, CorrectiveChildren(disk', x) # CorrectiveChildren(disk, x)
      PROVE  Attempts(x)' = Attempts(x) + 1 /\ (MainMakes(x) \/ WorkerMakes(x))
  BY <1>1, <1>3, CorrectivesGrow, OneMore
<1>4. ASSUME NEW x \in Ids, CorrectiveChildren(disk', x) = CorrectiveChildren(disk, x)
      PROVE  Attempts(x)' = Attempts(x)
  BY <1>4 DEF Attempts
<1>5. \A x \in Ids : CorrectiveChildren(disk, x) = {} => Attempts(x) = 0
  BY FS_EmptySet DEF Attempts
<1>6. ASSUME NEW x \in Ids PROVE Attempts(x)' <= MaxCorrective
  <2>1. CASE CorrectiveChildren(disk', x) = CorrectiveChildren(disk, x)
    BY <1>1, <1>4, <2>1 DEF Counted
  <2>2. CASE MainMakes(x)
    <3>1. Attempts(x) < MaxCorrective
      BY <1>1, <2>2 DEF MainMakes, Counted
    <3> QED
      BY <1>1, <1>2, <1>3, <1>4, <3>1
  <2>3. CASE WorkerMakes(x)
    <3>1. Attempts(x) <= 1
      BY <1>1, <2>3 DEF WorkerMakes, Counted
    <3> QED
      BY <1>1, <1>2, <1>3, <1>4, <3>1
  <2> QED
    BY <1>3, <2>1, <2>2, <2>3
<1>7. ASSUME mpc' = "reevalCreate"
      PROVE  /\ Attempts(target)' < MaxCorrective
             /\ wpc'[target'] = "corrCreate" => CorrectiveChildren(disk', target') = {}
  <2>1. CASE mpc = "reevalCreate" /\ target' = target
    <3>1. target \in Ids
      BY <1>1, <2>1 DEF TypeOK
    <3>2. CASE CorrectiveChildren(disk', target) = CorrectiveChildren(disk, target)
      <4>1. Attempts(target)' = Attempts(target)
        BY <1>4, <2>1, <3>1, <3>2 DEF Attempts
      <4>2. wpc'[target] = "corrCreate" => wpc[target] = "corrCreate" \/ CorrectiveChildren(disk, target) = {}
        BY <1>1, <3>1, WorkerEnters DEF CheckCorrectives, Goto, TypeOK
      <4> QED
        BY <1>1, <2>1, <3>2, <4>1, <4>2 DEF Counted
    <3>3. CASE CorrectiveChildren(disk', target) # CorrectiveChildren(disk, target)
      <4>1. WorkerMakes(target)
        BY <1>3, <1>7, <3>1, <3>3 DEF MainMakes
      <4>2. CorrectiveChildren(disk, target) = {} /\ wpc'[target] # "corrCreate"
        BY <1>1, <2>1, <4>1 DEF WorkerMakes, Counted, TypeOK
      <4>3. Attempts(target)' = 1
        BY <1>3, <1>5, <2>1, <3>1, <3>3, <4>2 DEF Attempts
      <4> QED
        BY <1>1, <2>1, <4>2, <4>3
    <3> QED
      BY <3>2, <3>3
  <2>2. ASSUME NEW b \in todo, mpc = "reeval", target' = b, UNCHANGED <<disk, wpc>>,
               CorrectiveDecision(disk, b, snap[b]) = "create"
        PROVE  /\ Attempts(target)' < MaxCorrective
               /\ wpc'[target'] = "corrCreate" => CorrectiveChildren(disk', target') = {}
    <3>1. /\ Attempts(b) < MaxCorrective
          /\ wpc[b] = "corrCreate" => CorrectiveChildren(disk, b) = {}
      BY <2>2, DecidesWithinBudget
    <3> QED
      BY <2>2, <3>1 DEF Attempts
  <2> QED
    BY <1>1, <1>7, <2>1, <2>2, MainEnters
<1>8. ASSUME NEW b \in Ids, wpc'[b] = "corrCreate"
      PROVE  /\ Attempts(b)' <= 1
             /\ \A q \in CopiesOf(b)' : q.status = "blocked" =>
                    \A c \in CorrectiveChildren(disk', b) : ~AlreadyRetried(q, c)
  <2>1. CASE wpc[b] = "corrCreate"
    <3>1. Attempts(b)' <= 1
      <4>1. CASE CorrectiveChildren(disk', b) = CorrectiveChildren(disk, b)
        BY <1>1, <1>4, <2>1, <4>1 DEF Counted
      <4>2. CASE CorrectiveChildren(disk', b) # CorrectiveChildren(disk, b)
        <5>1. MainMakes(b)
          BY <1>1, <1>3, <1>8, <4>2 DEF WorkerMakes, TypeOK
        <5>2. Attempts(b) = 0
          BY <1>1, <1>5, <2>1, <5>1 DEF MainMakes, Counted
        <5> QED
          BY <1>3, <4>2, <5>2
      <4> QED
        BY <4>1, <4>2
    <3> QED
      BY <1>8, <2>1, <3>1, UnretriedStep
  <2>2. CASE CheckCorrectives(b)
    <3>1. CorrectiveChildren(disk, b) = {} /\ disk' = disk
      BY <1>1, <1>8, <2>2 DEF CheckCorrectives, Goto, TypeOK
    <3>2. Attempts(b)' = 0
      BY <1>4, <1>5, <3>1
    <3> QED
      BY <3>1, <3>2
  <2> QED
    BY <1>1, <1>8, <2>1, <2>2, WorkerEnters
<1> QED
  BY <1>6, <1>7, <1>8 DEF Counted, AlreadyRetried

(* However verdicts, failures, kills and re-evaluations interleave, a bead *)
(* never gets more correctives than max_corrective_attempts.               *)
THEOREM CorrectivesWithinBudget ==
    ASSUME FiniteIds, BudgetOfTwo, NoOperator, StartsWithinBudget
    PROVE  Spec => []CorrectiveBudget
<1>1. ASSUME Init PROVE BInv
  <2>1. HInv /\ \A x \in Ids : \A r \in CopiesOf(x) : r = NoBead \/ r = disk[x]
    BY <1>1, InitFlow
  <2>2. disk \in InitStores /\ mpc = "idle" /\ \A b \in Ids : wpc[b] = "none"
    BY <1>1 DEF Init, Idle
  <2>3. Plannable
    BY <2>2 DEF Plannable, StartsWithinBudget
  <2>4. RetriedKnown
    BY <2>1, <2>2 DEF RetriedKnown, StartsWithinBudget, NoBead
  <2>5. Counted
    BY <2>2 DEF Counted, StartsWithinBudget, Attempts
  <2> QED
    BY <2>1, <2>3, <2>4, <2>5 DEF BInv
<1>2. BInv /\ [Next]_vars => BInv'
  BY StepFlow, PlannableStep, RetriedStep, CountedStep DEF BInv
<1>3. BInv => CorrectiveBudget
  BY DEF BInv, Counted, Attempts, CorrectiveBudget
<1> QED
  BY <1>1, <1>2, <1>3, PTL DEF Spec
=============================================================================
