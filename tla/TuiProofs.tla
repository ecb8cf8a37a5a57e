------------------------------ MODULE TuiProofs -------------------------------
(***************************************************************************)
(* Theorems about the terminal UI, for any tree of beads, filters, events  *)
(* and number of changes by others.                                        *)
(***************************************************************************)
EXTENDS Tui, FiniteSetTheorems, TLAPS

-----------------------------------------------------------------------------
(* Numbers.                                                                *)
LEMMA SmallestNat ==
    ASSUME NEW S, S \subseteq Nat, S # {}
    PROVE  \E x \in S : \A y \in S : x <= y
<1>1. \E x \in S : \A y \in S : ~(<<y, x>> \in OpToRel(<, Nat))
  BY NatLessThanWellFounded, WFMin
<1>2. PICK x \in S : \A y \in S : ~(<<y, x>> \in OpToRel(<, Nat))
  BY <1>1
<1>3. \A y \in S : ~(y < x)
  BY <1>2 DEF OpToRel
<1>4. \A y \in S : x <= y
  BY <1>3
<1> QED
  BY <1>4

LEMMA MinOfNats ==
    ASSUME NEW S, S \subseteq Nat, S # {}
    PROVE  Min(S) \in S
  BY SmallestNat DEF Min

(* A finite set in its order has each of its numbers once, the less first. *)
LEMMA Ordered ==
    ASSUME NEW S, S \subseteq Nat, IsFiniteSet(S)
    PROVE  /\ Cardinality(S) \in Nat /\ DOMAIN InOrder(S) = 1..Cardinality(S)
           /\ \A i \in DOMAIN InOrder(S) : InOrder(S)[i] \in S
           /\ \A i, j \in DOMAIN InOrder(S) : i < j => InOrder(S)[i] < InOrder(S)[j]
           /\ \A x \in S : \E i \in DOMAIN InOrder(S) : InOrder(S)[i] = x
<1> DEFINE n == Cardinality(S)
           Below(x) == {y \in S : y < x}
           rank == [x \in S |-> Cardinality(Below(x)) + 1]
<1>1. n \in Nat
  BY FS_CardinalityType
<1>2. ASSUME NEW x \in S
      PROVE  IsFiniteSet(Below(x)) /\ Cardinality(Below(x)) \in Nat /\ Cardinality(Below(x)) < n
  <2>1. Below(x) \in SUBSET S /\ x \notin Below(x)
    OBVIOUS
  <2>2. IsFiniteSet(Below(x)) /\ Cardinality(Below(x)) <= n /\ Cardinality(Below(x)) # n
    BY <2>1, FS_Subset
  <2>3. Cardinality(Below(x)) \in Nat
    BY <2>2, FS_CardinalityType
  <2> QED
    BY <1>1, <2>2, <2>3
<1>3. ASSUME NEW x \in S, NEW y \in S, x < y
      PROVE  Cardinality(Below(x)) < Cardinality(Below(y))
  <2>1. Below(x) \in SUBSET Below(y) /\ x \in Below(y) /\ x \notin Below(x)
    <3>1. x \in Nat /\ y \in Nat /\ \A z \in S : z \in Nat
      OBVIOUS
    <3>2. \A z \in S : z < x => z < y
      BY <1>3, <3>1
    <3>3. x \in Below(y) /\ x \notin Below(x)
      BY <1>3, <3>1
    <3>4. \A z \in Below(x) : z \in Below(y)
      BY <3>2
    <3> QED
      BY <3>3, <3>4
  <2>2. Cardinality(Below(x)) <= Cardinality(Below(y)) /\ Cardinality(Below(x)) # Cardinality(Below(y))
    BY <1>2, <2>1, FS_Subset
  <2> QED
    BY <1>2, <2>2
<1> HIDE DEF Below, n
<1>4. rank \in [S -> 1..n] /\ \A x, y \in S : x < y => rank[x] < rank[y]
  BY <1>1, <1>2, <1>3
<1>5. \A x, y \in S : rank[x] = rank[y] => x = y
  BY <1>4
<1>6. rank \in Injection(S, 1..n)
  BY <1>4, <1>5 DEF Injection, IsInjective
<1>7. IsFiniteSet(1..n) /\ Cardinality(1..n) = n
  BY <1>1, FS_Interval
<1>8. rank \in Surjection(S, 1..n)
  BY <1>6, <1>7, FS_Injection DEF n
<1>9. \A i \in 1..n : \E x \in S : rank[x] = i
  BY <1>8 DEF Surjection
<1>10. \A x \in S : rank[x] = Cardinality(Below(x)) + 1 /\ Cardinality(Below(x)) \in Nat
  BY <1>2
<1> HIDE DEF rank
<1>11. DOMAIN InOrder(S) = 1..n /\ \A i \in 1..n : InOrder(S)[i] = CHOOSE x \in S : Cardinality(Below(x)) = i - 1
  BY DEF InOrder, n, Below
<1>12. ASSUME NEW i \in 1..n
       PROVE  InOrder(S)[i] \in S /\ rank[InOrder(S)[i]] = i
  <2>1. PICK x \in S : rank[x] = i
    BY <1>9
  <2>2. i \in Nat /\ \A y \in S : Cardinality(Below(y)) = i - 1 <=> rank[y] = i
    BY <1>1, <1>10
  <2>3. InOrder(S)[i] = CHOOSE y \in S : Cardinality(Below(y)) = i - 1
    BY <1>11
  <2>4. InOrder(S)[i] \in S /\ Cardinality(Below(InOrder(S)[i])) = i - 1
    BY <2>1, <2>2, <2>3
  <2> QED
    BY <2>2, <2>4
<1>13. ASSUME NEW i \in 1..n, NEW j \in 1..n, i < j
       PROVE  InOrder(S)[i] < InOrder(S)[j]
  <2>1. PICK x \in S, y \in S : x = InOrder(S)[i] /\ y = InOrder(S)[j] /\ rank[x] = i /\ rank[y] = j
    BY <1>12
  <2>2. ~(y < x) /\ y # x
    BY <1>1, <1>4, <1>13, <2>1
  <2> QED
    BY <2>1, <2>2
<1>14. ASSUME NEW x \in S
       PROVE  \E i \in 1..n : InOrder(S)[i] = x
  <2>1. rank[x] \in 1..n
    BY <1>4
  <2> QED
    BY <1>5, <1>12, <2>1
<1> QED
  BY <1>1, <1>11, <1>12, <1>13, <1>14 DEF n

-----------------------------------------------------------------------------
(* Rows and the selection.                                                 *)
LEMMA RowsInSequence ==
    ASSUME NEW mode, NEW st, NEW rs, rs = BuildRows(mode, st)
    PROVE  Len(rs) \in Nat /\ DOMAIN rs = 1..Len(rs)
<1>1. Cardinality(Visible(mode, st)) \in Nat
  <2>1. Visible(mode, st) \in SUBSET Beads
    BY DEF Visible
  <2> QED
    BY <2>1, TuiAssumption, FS_Subset, FS_CardinalityType
<1>2. DOMAIN rs = 1..Cardinality(Visible(mode, st))
  BY DEF BuildRows
<1>3. rs \in Seq({rs[i] : i \in DOMAIN rs})
  <2>1. rs = [i \in 1..Cardinality(Visible(mode, st)) |-> rs[i]]
    BY DEF BuildRows
  <2> QED
    BY <1>1, <1>2, <2>1
<1> QED
  BY <1>3

LEMMA IndexFound ==
    ASSUME NEW rs, Len(rs) \in Nat, DOMAIN rs = 1..Len(rs), NEW b, NEW ok, IsRow(rs, b, ok)
    PROVE  IndexOf(rs, b) \in DOMAIN rs /\ IndexOf(rs, b) # 0 /\ rs[IndexOf(rs, b)].bead = b
<1> DEFINE I == {i \in 1..Len(rs) : rs[i].bead = b}
<1>1. IndexOf(rs, b) = IF I # {} THEN Min(I) ELSE 0
  BY DEF IndexOf, SelectInSeq
<1>2. I \subseteq Nat /\ I # {}
  BY DEF IsRow
<1>3. Min(I) \in I
  BY <1>2, MinOfNats
<1> HIDE DEF I
<1>4. IndexOf(rs, b) \in I
  BY <1>1, <1>2, <1>3
<1> QED
  BY <1>4 DEF I

FlowShape == flow = [bead |-> flow.bead, target |-> flow.target]
TuiInv == ConfirmsSelected /\ FlowShape

(* A refresh follows the selection, and forgets what waits for a bead that *)
(* has left the rows.                                                      *)
LEMMA Refreshes ==
    ASSUME NEW mode, NEW st, NEW retry, NEW fl, Refresh(mode, retry, fl, st),
           retry = 0 \/ retry = selected_bead_id, fl = NoFlow \/ fl.bead = selected_bead_id,
           fl = [bead |-> fl.bead, target |-> fl.target], retry = 0 \/ fl = NoFlow
    PROVE  TuiInv'
<1>1. NoFlow = [bead |-> NoFlow.bead, target |-> NoFlow.target]
  BY DEF NoFlow
<1>2. CASE pending_retry' = 0 /\ flow' = NoFlow
  BY <1>1, <1>2 DEF TuiInv, FlowShape, ConfirmsSelected, NoFlow
<1>3. CASE ~(pending_retry' = 0 /\ flow' = NoFlow)
  <2> PICK rs : rs = rows'
    OBVIOUS
  <2>1. /\ rs = BuildRows(mode, st) /\ selected_index' = ResolveSelectedIndex(rs)
        /\ selected_bead_id' = IF rs = <<>> THEN 0 ELSE rs[selected_index'].bead
        /\ pending_retry' = IF IsRow(rs, retry, {"blocked"}) THEN retry ELSE 0
        /\ flow' = IF IsRow(rs, fl.bead, Statuses) THEN fl ELSE NoFlow
    BY <1>3 DEF Refresh
  <2>2. Len(rs) \in Nat /\ DOMAIN rs = 1..Len(rs)
    BY <2>1, RowsInSequence
  <2>3. ASSUME NEW ok, IsRow(rs, selected_bead_id, ok) PROVE selected_bead_id' = selected_bead_id
    <3>1. rs # <<>>
      BY <2>3 DEF IsRow
    <3>2. IndexOf(rs, selected_bead_id) # 0 /\ rs[IndexOf(rs, selected_bead_id)].bead = selected_bead_id
      BY <2>2, <2>3, IndexFound
    <3>3. selected_index' = IndexOf(rs, selected_bead_id)
      BY <2>1, <3>1, <3>2 DEF ResolveSelectedIndex
    <3> QED
      BY <2>1, <3>1, <3>2, <3>3
  <2>4. pending_retry' # 0 => /\ pending_retry' = selected_bead_id' /\ retry # 0
                              /\ IsRow(rs, pending_retry', {"blocked"})
    BY <2>1, <2>3
  <2>5. flow' # NoFlow => flow'.bead = selected_bead_id' /\ fl # NoFlow
    BY <2>1, <2>3
  <2>6. IsRow(rows, pending_retry, {"blocked"})' <=> IsRow(rs, pending_retry', {"blocked"})
    BY DEF IsRow
  <2>7. flow' = [bead |-> flow'.bead, target |-> flow'.target]
    BY <1>1, <2>1
  <2> QED
    BY <2>4, <2>5, <2>6, <2>7 DEF TuiInv, FlowShape, ConfirmsSelected, NoFlow
<1> QED
  BY <1>2, <1>3

LEMMA TuiInitially == TuiInit => TuiInv
  BY DEF TuiInit, TuiInv, FlowShape, ConfirmsSelected, NoFlow

LEMMA TuiSteps == TuiInv /\ [TuiNext]_tuiVars => TuiInv'
<1> SUFFICES ASSUME TuiInv, [TuiNext]_tuiVars PROVE TuiInv'
  OBVIOUS
<1>1. /\ pending_retry = 0 \/ pending_retry = selected_bead_id
      /\ flow = NoFlow \/ flow.bead = selected_bead_id
      /\ flow = [bead |-> flow.bead, target |-> flow.target]
      /\ NoFlow = [bead |-> NoFlow.bead, target |-> NoFlow.target]
      /\ pending_retry = 0 \/ flow = NoFlow
  BY DEF TuiInv, FlowShape, ConfirmsSelected, NoFlow
<1>2. ASSUME UNCHANGED uiVars PROVE TuiInv'
  BY <1>2 DEF uiVars, TuiInv, FlowShape, ConfirmsSelected, IsRow, NoFlow
<1>3. CASE Tick
  BY <1>1, <1>3, Refreshes DEF Tick
<1>4. ASSUME NEW target, ChooseTarget(target) PROVE TuiInv'
  <2>1. PICK f, g : f = flow /\ g = [f EXCEPT !.target = target]
    OBVIOUS
  <2>2. g = [bead |-> f.bead, target |-> target]
    BY <1>1, <2>1
  <2>3. /\ flow' = g /\ flow # NoFlow /\ pending_retry' = pending_retry
        /\ selected_bead_id' = selected_bead_id /\ rows' = rows
    BY <1>4, <2>1 DEF ChooseTarget
  <2> QED
    BY <1>1, <2>1, <2>2, <2>3 DEF TuiInv, FlowShape, ConfirmsSelected, NoFlow
<1>5. CASE ManualRefresh
  BY <1>1, <1>4, <1>5, Refreshes DEF ManualRefresh
<1>6. ASSUME NEW step, CycleFilter(step) PROVE TuiInv'
  BY <1>1, <1>6, Refreshes DEF CycleFilter
<1>7. CASE Highlight
  BY <1>1, <1>7 DEF Highlight, SelectIndex, TuiInv, FlowShape, ConfirmsSelected, NoFlow
<1>8. CASE RequestRetry
  BY <1>1, <1>8 DEF RequestRetry, TuiInv, FlowShape, ConfirmsSelected, NoFlow, IsRow
<1>9. CASE OpenStatusFlow
  BY <1>1, <1>9 DEF OpenStatusFlow, TuiInv, FlowShape, ConfirmsSelected, NoFlow
<1>10. CASE ConfirmRetry
  <2>1. CASE pending_retry' = 0 /\ UNCHANGED <<rows, selected_index, selected_bead_id, flow>>
    BY <1>1, <2>1 DEF TuiInv, FlowShape, ConfirmsSelected, NoFlow
  <2>2. CASE Refresh(filter_mode, 0, flow, status')
    BY <1>1, <2>2, Refreshes
  <2> QED
    BY <1>10, <2>1, <2>2 DEF ConfirmRetry
<1>11. CASE ConfirmStatusUpdate
  BY <1>1, <1>11, Refreshes DEF ConfirmStatusUpdate
<1>12. CASE CancelPendingAction
  BY <1>1, <1>12 DEF CancelPendingAction, TuiInv, FlowShape, ConfirmsSelected, NoFlow
<1> QED
  BY <1>2, <1>3, <1>4, <1>5, <1>6, <1>7, <1>8, <1>9, <1>10, <1>11, <1>12
     DEF TuiNext, Keys, Confirm, StatusChange, LoadEventHistory, tuiVars

LEMMA TuiInvariant == TuiSpec => []TuiInv
  BY TuiInitially, TuiSteps, PTL DEF TuiSpec

LEMMA ChangesCounted == TuiSpec => [](changes \in Nat)
<1>1. TuiInit => changes \in Nat
  BY DEF TuiInit
<1>2. changes \in Nat /\ [TuiNext]_tuiVars => (changes \in Nat)'
  BY DEF TuiNext, Keys, Confirm, StatusChange, Tick, ManualRefresh, ChooseTarget, CycleFilter, Highlight,
         SelectIndex, LoadEventHistory, RequestRetry, OpenStatusFlow, ConfirmRetry, ConfirmStatusUpdate,
         CancelPendingAction, tuiVars
<1> QED
  BY <1>1, <1>2, PTL DEF TuiSpec

(* What y would act on is the bead under the cursor, whatever the timer,   *)
(* the filters and other processes do to the rows in between.              *)
THEOREM ConfirmedIsSelected == TuiSpec => []ConfirmsSelected
<1>1. TuiInv => ConfirmsSelected
  BY DEF TuiInv
<1> QED
  BY <1>1, TuiInvariant, PTL

(* The TUI writes only the bead under the cursor, and only what waited for *)
(* the confirmation.                                                       *)
THEOREM OnlyConfirmedWrites == TuiSpec => WritesConfirmed
<1> DEFINE Confirmed ==
        status' # status /\ changes' = changes =>
            /\ pending_retry # 0 \/ flow # NoFlow
            /\ \A b \in Beads : status'[b] # status[b] => b = selected_bead_id
<1>1. TuiInv /\ changes \in Nat /\ [TuiNext]_tuiVars => [Confirmed]_tuiVars
  <2> SUFFICES ASSUME TuiInv, changes \in Nat, TuiNext, status' # status, changes' = changes
               PROVE  Confirmed
    OBVIOUS
  <2>1. CASE ConfirmRetry
    <3>1. pending_retry # 0 /\ pending_retry = selected_bead_id
      BY <2>1 DEF ConfirmRetry, TuiInv, FlowShape, ConfirmsSelected
    <3>2. \E s : status' = [status EXCEPT ![pending_retry] = s]
      BY <2>1 DEF ConfirmRetry
    <3> QED
      BY <3>1, <3>2
  <2>2. CASE ConfirmStatusUpdate
    <3>1. flow # NoFlow /\ flow.bead = selected_bead_id
      BY <2>2 DEF ConfirmStatusUpdate, TuiInv, FlowShape, ConfirmsSelected, NoFlow
    <3> QED
      BY <2>2, <3>1 DEF ConfirmStatusUpdate
  <2>3. StatusChange => FALSE
    BY DEF StatusChange
  <2> QED
    BY <2>1, <2>2, <2>3 DEF TuiNext, Keys, Confirm, Tick, ManualRefresh, ChooseTarget, CycleFilter,
       Highlight, SelectIndex, LoadEventHistory, RequestRetry, OpenStatusFlow, CancelPendingAction
<1> QED
  BY <1>1, TuiInvariant, ChangesCounted, PTL DEF TuiSpec, WritesConfirmed

-----------------------------------------------------------------------------
(* The log.  Events are recorded in their order, and the lines in memory   *)
(* are of events that begin between the two offsets.                       *)
Part == [event : Nat, part : {"whole", "head", "rest"}]
Begins(i) == log[i].part # "rest"
LogShape ==
    /\ log \in Seq(Part)
    /\ \A i, j \in 1..Len(log) : i < j =>
           log[i].event <= log[j].event /\ (Begins(j) => log[i].event < log[j].event)
Offsets ==
    /\ history_offset \in Nat /\ event_log_offset \in Nat
    /\ history_offset <= event_log_offset /\ event_log_offset <= Len(log)
(* Lines that are what is to be shown of the events that begin after one   *)
(* position of the file and not after another.                             *)
Spans(lines, lo, hi) ==
    /\ lines \in Seq(Nat)
    /\ \A k \in 1..Len(lines) : \E i \in lo + 1..hi : Begins(i) /\ log[i].event = lines[k]
    /\ \A k, l \in 1..Len(lines) : k < l => lines[k] < lines[l]
    /\ \A i \in lo + 1..hi : log[i].part = "whole" /\ log[i].event \notin Quiet =>
           \E k \in 1..Len(lines) : lines[k] = log[i].event
TuiLogInv == LogShape /\ Offsets /\ Spans(scheduler_log, history_offset, event_log_offset)

(* What is read of a stretch of the file: the beginnings of its events, in *)
(* their order, all that are there in one piece among them.                *)
Reads(base, lo, hi, pieces, starts) ==
    /\ pieces \in Seq(Part) /\ Len(pieces) = hi - base
    /\ \A i \in 1..hi - base : pieces[i] = log[base + i]
    /\ starts \in Seq(1..hi - base)
    /\ \A k \in 1..Len(starts) : base + starts[k] \in lo + 1..hi /\ Begins(base + starts[k])
    /\ \A k, l \in 1..Len(starts) : k < l => starts[k] < starts[l]
    /\ \A i \in lo + 1..hi : log[i].part = "whole" /\ log[i].event \notin Quiet =>
           \E k \in 1..Len(starts) : starts[k] = i - base

LEMMA Stretch ==
    ASSUME LogShape, NEW lo \in Nat, NEW hi \in Nat, lo <= hi, hi <= Len(log)
    PROVE  Reads(lo, lo, hi, SubSeq(log, lo + 1, hi), InOrder(Parsed(SubSeq(log, lo + 1, hi))))
<1> DEFINE pieces == SubSeq(log, lo + 1, hi)
           starts == InOrder(Parsed(pieces))
<1>1. log \in Seq(Part) /\ Len(log) \in Nat
  BY DEF LogShape
<1>2. /\ pieces \in Seq(Part) /\ Len(pieces) = hi - lo
      /\ \A i \in 1..hi - lo : pieces[i] = log[lo + i]
  BY <1>1
<1> HIDE DEF pieces
<1>3. DOMAIN pieces = 1..hi - lo /\ hi - lo \in Nat
  BY <1>2
<1>4. Parsed(pieces) \in SUBSET (1..hi - lo) /\ Parsed(pieces) \subseteq Nat
  BY <1>3 DEF Parsed
<1>5. IsFiniteSet(Parsed(pieces))
  <2>1. IsFiniteSet(1..hi - lo)
    BY <1>3, FS_Interval
  <2> QED
    BY <1>4, <2>1, FS_Subset
<1> DEFINE n == Cardinality(Parsed(pieces))
<1>6. /\ n \in Nat /\ DOMAIN starts = 1..n
      /\ \A i \in 1..n : starts[i] \in Parsed(pieces)
      /\ \A i, j \in 1..n : i < j => starts[i] < starts[j]
      /\ \A x \in Parsed(pieces) : \E i \in 1..n : starts[i] = x
  BY <1>4, <1>5, Ordered
<1> HIDE DEF n, starts
<1>7. starts \in Seq(1..hi - lo) /\ Len(starts) = n
  <2>1. starts = [i \in 1..n |-> starts[i]]
    BY <1>6 DEF InOrder, n, starts
  <2>2. \A i \in 1..n : starts[i] \in 1..hi - lo
    BY <1>4, <1>6
  <2>3. starts \in [1..n -> 1..hi - lo]
    BY <2>1, <2>2
  <2> QED
    BY <1>6, <2>3
<1>8. \A p \in Parsed(pieces) : p \in 1..hi - lo /\ Begins(lo + p)
  <2> SUFFICES ASSUME NEW p \in Parsed(pieces) PROVE p \in 1..hi - lo /\ Begins(lo + p)
    OBVIOUS
  <2>1. p \in 1..hi - lo /\ pieces[p].part # "rest"
    BY <1>4 DEF Parsed
  <2> QED
    BY <1>2, <2>1 DEF Begins
<1>9. ASSUME NEW i \in lo + 1..hi, log[i].part = "whole", log[i].event \notin Quiet
      PROVE  i - lo \in Parsed(pieces)
  <2>1. i - lo \in 1..hi - lo /\ lo + (i - lo) = i
    OBVIOUS
  <2>2. pieces[i - lo] = log[i]
    BY <1>2, <2>1
  <2> QED
    BY <1>3, <1>9, <2>1, <2>2 DEF Parsed
<1>10. \A k \in 1..Len(starts) : lo + starts[k] \in lo + 1..hi /\ Begins(lo + starts[k])
  BY <1>6, <1>7, <1>8
<1>11. \A i \in lo + 1..hi : log[i].part = "whole" /\ log[i].event \notin Quiet =>
           \E k \in 1..Len(starts) : starts[k] = i - lo
  BY <1>6, <1>7, <1>9
<1> QED
  BY <1>2, <1>6, <1>7, <1>10, <1>11 DEF Reads, pieces, starts

LEMMA LinesOf ==
    ASSUME NEW pieces \in Seq(Part), NEW n \in Nat, n <= Len(pieces), NEW starts \in Seq(1..n)
    PROVE  /\ Lines(pieces, starts) \in Seq(Nat) /\ Len(Lines(pieces, starts)) = Len(starts)
           /\ \A k \in 1..Len(starts) : Lines(pieces, starts)[k] = pieces[starts[k]].event
<1>1. Lines(pieces, starts) = [k \in 1..Len(starts) |-> pieces[starts[k]].event]
  BY DEF Lines
<1>2. \A k \in 1..Len(starts) : pieces[starts[k]].event \in Nat
  <2> SUFFICES ASSUME NEW k \in 1..Len(starts) PROVE pieces[starts[k]].event \in Nat
    OBVIOUS
  <2>1. starts[k] \in 1..Len(pieces)
    OBVIOUS
  <2>2. pieces[starts[k]] \in Part
    BY <2>1
  <2> QED
    BY <2>2 DEF Part
<1> QED
  BY <1>1, <1>2

-----------------------------------------------------------------------------
(* Lines that are appended or put in front keep the order, where they are  *)
(* of events that begin after, or before, those that are there.            *)
LEMMA Joined ==
    ASSUME NEW s \in Seq(Nat), NEW t \in Seq(Nat),
           \A k, l \in 1..Len(s) : k < l => s[k] < s[l],
           \A k, l \in 1..Len(t) : k < l => t[k] < t[l],
           \A k \in 1..Len(s), l \in 1..Len(t) : s[k] < t[l]
    PROVE  /\ s \o t \in Seq(Nat) /\ Len(s \o t) = Len(s) + Len(t)
           /\ \A k \in 1..Len(s) : (s \o t)[k] = s[k]
           /\ \A l \in 1..Len(t) : (s \o t)[Len(s) + l] = t[l]
           /\ \A k \in 1..Len(s \o t) :
                  k \in 1..Len(s) \/ \E l \in 1..Len(t) : k = Len(s) + l
           /\ \A k, l \in 1..Len(s \o t) : k < l => (s \o t)[k] < (s \o t)[l]
<1>1. /\ s \o t \in Seq(Nat) /\ Len(s \o t) = Len(s) + Len(t) /\ Len(s) \in Nat /\ Len(t) \in Nat
      /\ \A k \in 1..Len(s) : (s \o t)[k] = s[k]
      /\ \A l \in 1..Len(t) : (s \o t)[Len(s) + l] = t[l]
  OBVIOUS
<1>2. ASSUME NEW k \in 1..Len(s \o t) PROVE k \in 1..Len(s) \/ \E l \in 1..Len(t) : k = Len(s) + l
  <2>1. CASE k <= Len(s)
    BY <1>1, <2>1
  <2>2. CASE k > Len(s)
    <3>1. k - Len(s) \in 1..Len(t) /\ k = Len(s) + (k - Len(s))
      BY <1>1, <2>2
    <3> QED
      BY <3>1
  <2> QED
    BY <1>1, <2>1, <2>2
<1>3. ASSUME NEW k \in 1..Len(s \o t), NEW l \in 1..Len(s \o t), k < l
      PROVE  (s \o t)[k] < (s \o t)[l]
  <2>1. CASE l \in 1..Len(s)
    <3>1. k \in 1..Len(s)
      BY <1>1, <1>3, <2>1
    <3> QED
      BY <1>1, <1>3, <2>1, <3>1
  <2>2. ASSUME NEW m \in 1..Len(t), l = Len(s) + m PROVE (s \o t)[k] < (s \o t)[l]
    <3>1. CASE k \in 1..Len(s)
      BY <1>1, <2>2, <3>1
    <3>2. ASSUME NEW j \in 1..Len(t), k = Len(s) + j PROVE (s \o t)[k] < (s \o t)[l]
      <4>1. j < m
        BY <1>1, <1>3, <2>2, <3>2
      <4> QED
        BY <1>1, <2>2, <3>2, <4>1
    <3> QED
      BY <1>2, <3>1, <3>2
  <2> QED
    BY <1>2, <2>1, <2>2
<1> QED
  BY <1>1, <1>2, <1>3

LEMMA Recorded ==
    ASSUME TuiLogInv, RecordEvent
    PROVE  TuiLogInv'
<1> DEFINE n == Len(log)
<1>1. /\ log \in Seq(Part) /\ n \in Nat
      /\ event_log_offset' = event_log_offset /\ history_offset' = history_offset
      /\ scheduler_log' = scheduler_log
  BY DEF TuiLogInv, LogShape, RecordEvent
<1>2. n > 0 => Last(log) = log[n] /\ log[n] \in Part
  BY <1>1 DEF Last
<1>3. n = 0 <=> log = <<>>
  BY <1>1
<1>4. PICK p \in Part : /\ log' = Append(log, p)
                        /\ n > 0 => log[n].event <= p.event /\ (p.part # "rest" => log[n].event < p.event)
  <2>1. CASE Torn
    <3>1. PICK p : p = [event |-> Last(log).event, part |-> "rest"]
      OBVIOUS
    <3>2. log' = Append(log, p)
      BY <2>1, <3>1 DEF RecordEvent
    <3>3. n > 0
      BY <1>1, <1>3, <2>1 DEF Torn
    <3>4. p \in Part /\ p.event = log[n].event /\ p.part = "rest" /\ p.event \in Nat
      BY <1>2, <3>1, <3>3 DEF Part
    <3> QED
      BY <3>2, <3>4
  <2>2. CASE ~Torn
    <3>1. PICK part \in {"whole", "head"} : log' = Append(log, [event |-> LastEvent + 1, part |-> part])
      BY <2>2 DEF RecordEvent
    <3>2. PICK p : p = [event |-> LastEvent + 1, part |-> part]
      OBVIOUS
    <3>3. LastEvent + 1 \in Nat
      BY <2>2, LogAssumption DEF RecordEvent
    <3>4. n > 0 => LastEvent = log[n].event /\ log[n].event \in Nat
      BY <1>2, <1>3 DEF LastEvent, Part
    <3>5. p \in Part /\ p.event = LastEvent + 1
      BY <3>2, <3>3 DEF Part
    <3>6. n > 0 => log[n].event < p.event
      BY <3>4, <3>5
    <3>7. n > 0 => log[n].event <= p.event
      BY <3>4, <3>5
    <3> QED
      BY <3>1, <3>2, <3>5, <3>6, <3>7
  <2> QED
    BY <2>1, <2>2
<1>5. /\ log' \in Seq(Part) /\ Len(log') = n + 1 /\ log'[n + 1] = p
      /\ \A i \in 1..n : log'[i] = log[i]
  BY <1>1, <1>4
<1>6. p.event \in Nat /\ \A i \in 1..n : log[i].event \in Nat
  <2>1. \A q \in Part : q.event \in Nat
    BY DEF Part
  <2>2. \A i \in 1..n : log[i] \in Part
    BY <1>1
  <2> QED
    BY <2>1, <2>2
<1>7. \A i \in 1..n : log[i].event <= p.event /\ (p.part # "rest" => log[i].event < p.event)
  <2> SUFFICES ASSUME NEW i \in 1..n
               PROVE  log[i].event <= p.event /\ (p.part # "rest" => log[i].event < p.event)
    OBVIOUS
  <2>1. n \in 1..n
    BY <1>1
  <2>2. log[i].event <= log[n].event
    <3>1. i < n => log[i].event <= log[n].event
      BY <2>1 DEF TuiLogInv, LogShape
    <3> QED
      BY <1>1, <1>6, <3>1
  <2> QED
    BY <1>1, <1>4, <1>6, <2>1, <2>2
<1> HIDE DEF n
<1>8. LogShape'
  <2> SUFFICES ASSUME NEW i \in 1..n + 1, NEW j \in 1..n + 1, i < j
               PROVE  log'[i].event <= log'[j].event /\ (log'[j].part # "rest" => log'[i].event < log'[j].event)
    BY <1>5 DEF LogShape, Begins
  <2>1. CASE j = n + 1
    <3>1. i \in 1..n
      BY <1>1, <2>1
    <3> QED
      BY <1>5, <1>7, <2>1, <3>1
  <2>2. CASE j # n + 1
    <3>1. i \in 1..n /\ j \in 1..n
      BY <1>1, <2>2
    <3> QED
      BY <1>5, <3>1 DEF TuiLogInv, LogShape, Begins, n
  <2> QED
    BY <2>1, <2>2
<1>9. Offsets'
  BY <1>1, <1>5 DEF TuiLogInv, Offsets, n
<1>10. \A i \in history_offset + 1..event_log_offset : i \in 1..n
  BY <1>1 DEF TuiLogInv, Offsets, n
<1>11. Spans(scheduler_log, history_offset, event_log_offset)'
  <2>1. \A i \in history_offset + 1..event_log_offset : log'[i] = log[i]
    BY <1>5, <1>10
  <2>2. \A k \in 1..Len(scheduler_log) : \E i \in history_offset + 1..event_log_offset :
            log'[i].part # "rest" /\ log'[i].event = scheduler_log[k]
    BY <2>1 DEF TuiLogInv, Spans, Begins
  <2>3. \A i \in history_offset + 1..event_log_offset :
            log'[i].part = "whole" /\ log'[i].event \notin Quiet =>
                \E k \in 1..Len(scheduler_log) : scheduler_log[k] = log'[i].event
    BY <2>1 DEF TuiLogInv, Spans
  <2> QED
    BY <1>1, <2>2, <2>3 DEF TuiLogInv, Spans, Begins
<1> QED
  BY <1>8, <1>9, <1>11 DEF TuiLogInv

(* What is read of a stretch spans it, and two spans that meet are one.    *)
LEMMA ReadSpans ==
    ASSUME LogShape, NEW base \in Nat, NEW lo \in Nat, NEW hi \in Nat, base <= lo, lo <= hi, hi <= Len(log),
           NEW pieces, NEW starts, Reads(base, lo, hi, pieces, starts)
    PROVE  Spans(Lines(pieces, starts), lo, hi)
<1>0. PICK t : t = Lines(pieces, starts)
  OBVIOUS
<1>1. hi - base \in Nat /\ hi - base <= Len(pieces) /\ pieces \in Seq(Part) /\ starts \in Seq(1..hi - base)
  BY DEF Reads
<1>2. /\ t \in Seq(Nat) /\ Len(t) = Len(starts)
      /\ \A k \in 1..Len(starts) : t[k] = pieces[starts[k]].event
  BY <1>0, <1>1, LinesOf
<1>3. \A k \in 1..Len(starts) : /\ base + starts[k] \in lo + 1..hi /\ Begins(base + starts[k])
                                /\ log[base + starts[k]].event = t[k] /\ starts[k] \in Nat
  <2> SUFFICES ASSUME NEW k \in 1..Len(starts)
               PROVE  /\ base + starts[k] \in lo + 1..hi /\ Begins(base + starts[k])
                      /\ log[base + starts[k]].event = t[k] /\ starts[k] \in Nat
    OBVIOUS
  <2>1. starts[k] \in 1..hi - base /\ base + starts[k] \in lo + 1..hi /\ Begins(base + starts[k])
    <3>1. starts[k] \in 1..hi - base
      BY <1>1
    <3> QED
      BY <3>1 DEF Reads
  <2>2. pieces[starts[k]] = log[base + starts[k]]
    BY <2>1 DEF Reads
  <2> QED
    BY <1>2, <2>1, <2>2
<1>4. \A k \in 1..Len(t) : \E i \in lo + 1..hi : Begins(i) /\ log[i].event = t[k]
  BY <1>2, <1>3
<1>5. ASSUME NEW k \in 1..Len(starts), NEW l \in 1..Len(starts), k < l
      PROVE  t[k] < t[l]
  <2>1. starts[k] < starts[l]
    BY <1>5 DEF Reads
  <2>2. /\ base + starts[k] < base + starts[l] /\ base + starts[k] \in 1..Len(log) /\ base + starts[l] \in 1..Len(log)
    <3>1. PICK x \in Nat, y \in Nat : x = starts[k] /\ y = starts[l]
      BY <1>3
    <3>2. base + x \in lo + 1..hi /\ base + y \in lo + 1..hi
      BY <1>3, <3>1
    <3>3. x < y /\ Len(log) \in Nat
      BY <2>1, <3>1 DEF LogShape
    <3>4. base + x < base + y /\ base + x \in 1..Len(log) /\ base + y \in 1..Len(log)
      BY <3>2, <3>3
    <3> QED
      BY <3>1, <3>4
  <2>3. log[base + starts[k]].event < log[base + starts[l]].event
    BY <1>3, <2>2 DEF LogShape
  <2> QED
    BY <1>3, <2>3
<1>6. ASSUME NEW i \in lo + 1..hi, log[i].part = "whole", log[i].event \notin Quiet
      PROVE  \E k \in 1..Len(t) : t[k] = log[i].event
  <2>1. PICK k \in 1..Len(starts) : starts[k] = i - base
    BY <1>6 DEF Reads
  <2>2. base + starts[k] = i
    BY <2>1
  <2>3. t[k] = log[i].event
    BY <1>3, <2>2
  <2> QED
    BY <1>2, <2>3
<1>7. Spans(t, lo, hi)
  BY <1>2, <1>4, <1>5, <1>6 DEF Spans
<1> QED
  BY <1>0, <1>7

LEMMA SpansMeet ==
    ASSUME LogShape, NEW a \in Nat, NEW b \in Nat, NEW c \in Nat, a <= b, b <= c, c <= Len(log),
           NEW s, Spans(s, a, b), NEW t, Spans(t, b, c)
    PROVE  Spans(s \o t, a, c)
<1>1. s \in Seq(Nat) /\ t \in Seq(Nat) /\ Len(s) \in Nat /\ Len(t) \in Nat /\ Len(log) \in Nat
  BY DEF Spans, LogShape
<1>2. ASSUME NEW k \in 1..Len(s), NEW l \in 1..Len(t) PROVE s[k] < t[l]
  <2>1. PICK i \in a + 1..b : log[i].event = s[k]
    BY DEF Spans
  <2>2. PICK j \in b + 1..c : Begins(j) /\ log[j].event = t[l]
    BY DEF Spans
  <2>3. i \in 1..Len(log) /\ j \in 1..Len(log) /\ i < j
    BY <1>1
  <2>4. log[i].event < log[j].event
    BY <2>2, <2>3 DEF LogShape
  <2> QED
    BY <2>1, <2>2, <2>4
<1>u. PICK u : u = s \o t
  OBVIOUS
<1>3. /\ u \in Seq(Nat) /\ Len(u) = Len(s) + Len(t)
      /\ \A k \in 1..Len(s) : u[k] = s[k]
      /\ \A l \in 1..Len(t) : u[Len(s) + l] = t[l]
      /\ \A k \in 1..Len(u) : k \in 1..Len(s) \/ \E l \in 1..Len(t) : k = Len(s) + l
      /\ \A k, l \in 1..Len(u) : k < l => u[k] < u[l]
  <2>1. \A k, l \in 1..Len(s) : k < l => s[k] < s[l]
    BY DEF Spans
  <2>2. \A k, l \in 1..Len(t) : k < l => t[k] < t[l]
    BY DEF Spans
  <2> QED
    BY <1>u, <1>1, <1>2, <2>1, <2>2, Joined
<1>4. ASSUME NEW k \in 1..Len(u) PROVE \E i \in a + 1..c : Begins(i) /\ log[i].event = u[k]
  <2>1. CASE k \in 1..Len(s)
    <3>1. PICK i \in a + 1..b : Begins(i) /\ log[i].event = s[k]
      BY <2>1 DEF Spans
    <3>2. i \in a + 1..c
      OBVIOUS
    <3> QED
      BY <1>3, <2>1, <3>1, <3>2
  <2>2. ASSUME NEW l \in 1..Len(t), k = Len(s) + l
        PROVE  \E i \in a + 1..c : Begins(i) /\ log[i].event = u[k]
    <3>1. PICK i \in b + 1..c : Begins(i) /\ log[i].event = t[l]
      BY <2>2 DEF Spans
    <3>2. i \in a + 1..c
      OBVIOUS
    <3>3. u[k] = t[l]
      BY <1>3, <2>2
    <3> QED
      BY <3>1, <3>2, <3>3
  <2> QED
    BY <1>3, <2>1, <2>2
<1>5. ASSUME NEW i \in a + 1..c, log[i].part = "whole", log[i].event \notin Quiet
      PROVE  \E k \in 1..Len(u) : u[k] = log[i].event
  <2>1. CASE i <= b
    <3>1. i \in a + 1..b
      BY <2>1
    <3>2. PICK k \in 1..Len(s) : s[k] = log[i].event
      BY <1>5, <3>1 DEF Spans
    <3>3. k \in 1..Len(u)
      BY <1>1, <1>3
    <3> QED
      BY <1>3, <3>2, <3>3
  <2>2. CASE i > b
    <3>1. i \in b + 1..c
      BY <2>2
    <3>2. PICK l \in 1..Len(t) : t[l] = log[i].event
      BY <1>5, <3>1 DEF Spans
    <3>3. Len(s) + l \in 1..Len(u)
      BY <1>1, <1>3
    <3> QED
      BY <1>3, <3>2, <3>3
  <2> QED
    BY <2>1, <2>2
<1>6. Spans(u, a, c)
  BY <1>3, <1>4, <1>5 DEF Spans
<1> QED
  BY <1>u, <1>6

LEMMA Followed ==
    ASSUME TuiLogInv, TailEventLog
    PROVE  TuiLogInv'
<1>1. /\ LogShape /\ event_log_offset \in Nat /\ Len(log) \in Nat /\ event_log_offset <= Len(log)
      /\ history_offset \in Nat /\ history_offset <= event_log_offset
  BY DEF TuiLogInv, Offsets, LogShape
<1> DEFINE new == SubSeq(log, event_log_offset + 1, Len(log))
           starts == InOrder(Parsed(new))
<1>2. Reads(event_log_offset, event_log_offset, Len(log), new, starts)
  BY <1>1, Stretch
<1> HIDE DEF new, starts
<1>3. Spans(Lines(new, starts), event_log_offset, Len(log))
  BY <1>1, <1>2, ReadSpans
<1>4. Spans(scheduler_log \o Lines(new, starts), history_offset, Len(log))
  BY <1>1, <1>3, SpansMeet DEF TuiLogInv
<1>5. /\ scheduler_log' = scheduler_log \o Lines(new, starts) /\ event_log_offset' = Len(log)
      /\ log' = log /\ history_offset' = history_offset
  BY DEF TailEventLog, new, starts
<1>6. LogShape' /\ Offsets'
  BY <1>1, <1>5 DEF LogShape, Begins, Offsets
<1>7. Spans(scheduler_log, history_offset, event_log_offset)'
  BY <1>4, <1>5 DEF Spans, Begins
<1> QED
  BY <1>6, <1>7 DEF TuiLogInv

LEMMA WalkedBack ==
    ASSUME TuiLogInv, LoadHistory
    PROVE  TuiLogInv'
<1>1. /\ LogShape /\ history_offset \in Nat /\ Len(log) \in Nat /\ history_offset <= event_log_offset
      /\ event_log_offset \in Nat /\ event_log_offset <= Len(log) /\ log \in Seq(Part)
  BY DEF TuiLogInv, Offsets, LogShape
<1> DEFINE old == SubSeq(log, 1, history_offset)
           starts == InOrder(Parsed(old))
           found == IF Len(starts) <= HistoryLines THEN starts
                    ELSE SubSeq(starts, Len(starts) - HistoryLines + 1, Len(starts))
           from == IF found = <<>> THEN 0 ELSE found[1] - 1
<1>2. Reads(0, 0, history_offset, old, starts)
  BY <1>1, Stretch
<1>3. /\ scheduler_log' = Lines(old, found) \o scheduler_log /\ history_offset' = from
      /\ log' = log /\ event_log_offset' = event_log_offset
  BY DEF LoadHistory
<1> HIDE DEF old, starts
<1>4. /\ starts \in Seq(1..history_offset) /\ Len(starts) \in Nat /\ Len(old) = history_offset
      /\ old \in Seq(Part) /\ \A i \in 1..history_offset : old[i] = log[i]
  BY <1>1, <1>2 DEF Reads
<1>5. PICK skip \in 0..Len(starts) :
          /\ found \in Seq(1..history_offset) /\ Len(found) = Len(starts) - skip
          /\ \A k \in 1..Len(found) : found[k] = starts[skip + k]
          /\ Len(found) = 0 => skip = 0
  <2>1. CASE Len(starts) <= HistoryLines
    <3>1. found = starts
      BY <2>1
    <3> HIDE DEF found
    <3>2. \A k \in 1..Len(starts) : starts[0 + k] = starts[k]
      BY <1>4
    <3>3. 0 \in 0..Len(starts) /\ Len(starts) = Len(starts) - 0
      BY <1>4
    <3> QED
      BY <1>4, <3>1, <3>2, <3>3
  <2>2. CASE ~(Len(starts) <= HistoryLines)
    <3>1. PICK skip : skip = Len(starts) - HistoryLines
      OBVIOUS
    <3>2. found = SubSeq(starts, skip + 1, Len(starts))
      BY <2>2, <3>1
    <3> HIDE DEF found
    <3>3. HistoryLines \in Nat /\ HistoryLines > 0 /\ skip \in 0..Len(starts) /\ Len(starts) - skip = HistoryLines
      BY <1>4, <2>2, <3>1, LogAssumption
    <3>4. found \in Seq(1..history_offset) /\ Len(found) = HistoryLines
      BY <1>4, <3>2, <3>3
    <3>5. ASSUME NEW k \in 1..Len(found) PROVE found[k] = starts[skip + k]
      BY <1>4, <3>2, <3>3, <3>4
    <3> QED
      BY <3>3, <3>4, <3>5
  <2> QED
    BY <2>1, <2>2
<1>6. from = IF found = <<>> THEN 0 ELSE found[1] - 1
  OBVIOUS
<1> HIDE DEF found, from
<1>7. /\ found \in Seq(1..history_offset) /\ Len(found) \in Nat /\ (found = <<>> <=> Len(found) = 0)
      /\ skip \in Nat /\ skip <= Len(starts) /\ Len(starts) = skip + Len(found)
  BY <1>4, <1>5
<1>8. from \in Nat /\ from <= history_offset /\ (Len(found) > 0 => from + 1 = found[1] /\ found[1] \in 1..history_offset)
  <2>1. CASE found = <<>>
    BY <1>1, <1>6, <1>7, <2>1
  <2>2. CASE found # <<>>
    <3>1. 1 \in 1..Len(found) /\ from = found[1] - 1
      BY <1>5, <1>6, <1>7, <2>2
    <3>2. found[1] \in 1..history_offset
      BY <1>1, <1>7, <3>1
    <3> QED
      BY <1>1, <3>1, <3>2
  <2> QED
    BY <2>1, <2>2
<1>9. \A k \in 1..Len(found) : skip + k \in 1..Len(starts) /\ Begins(found[k]) /\ found[k] \in 1..history_offset
  <2> SUFFICES ASSUME NEW k \in 1..Len(found)
               PROVE  skip + k \in 1..Len(starts) /\ Begins(found[k]) /\ found[k] \in 1..history_offset
    OBVIOUS
  <2>1. skip + k \in 1..Len(starts) /\ found[k] = starts[skip + k] /\ found[k] \in 1..history_offset
    <3>1. found[k] \in 1..history_offset
      BY <1>1, <1>7
    <3>2. skip + k \in 1..Len(starts)
      BY <1>7
    <3> QED
      BY <1>5, <3>1, <3>2
  <2>2. Begins(0 + starts[skip + k])
    BY <1>2, <2>1 DEF Reads
  <2>3. 0 + starts[skip + k] = found[k]
    BY <2>1
  <2> QED
    BY <2>1, <2>2, <2>3
<1>10. \A k, l \in 1..Len(found) : k < l => found[k] < found[l]
  <2> SUFFICES ASSUME NEW k \in 1..Len(found), NEW l \in 1..Len(found), k < l PROVE found[k] < found[l]
    OBVIOUS
  <2>1. skip + k < skip + l
    BY <1>5
  <2>2. starts[skip + k] < starts[skip + l]
    BY <1>2, <1>9, <2>1 DEF Reads
  <2> QED
    BY <1>5, <2>2
<1>11. ASSUME NEW k \in 1..Len(found) PROVE found[k] \in from + 1..history_offset
  <2>1. 1 \in 1..Len(found) /\ from + 1 = found[1]
    BY <1>5, <1>8
  <2>2. found[1] <= found[k]
    <3>1. k = 1 \/ 1 < k
      OBVIOUS
    <3>2. found[1] \in Nat /\ found[k] \in Nat
      BY <1>9, <2>1
    <3> QED
      BY <1>10, <2>1, <3>1, <3>2
  <2> QED
    BY <1>1, <1>8, <1>9, <2>1, <2>2
<1>12. ASSUME NEW i \in from + 1..history_offset, log[i].part = "whole", log[i].event \notin Quiet
       PROVE  \E k \in 1..Len(found) : found[k] = i
  <2>1. i \in 0 + 1..history_offset /\ i - 0 = i
    BY <1>8
  <2>2. PICK l \in 1..Len(starts) : starts[l] = i
    BY <1>2, <1>12, <2>1 DEF Reads
  <2>3. CASE l <= skip
    <3>1. Len(found) > 0 /\ skip + 1 \in 1..Len(starts) /\ 1 \in 1..Len(found)
      <4>1. skip # 0
        BY <1>7, <2>3
      <4>2. Len(found) # 0
        BY <1>5, <4>1
      <4> QED
        BY <1>7, <4>2
    <3>2. l < skip + 1 /\ found[1] = starts[skip + 1]
      BY <1>5, <2>3, <3>1
    <3>3. starts[l] < starts[skip + 1]
      BY <1>2, <3>1, <3>2 DEF Reads
    <3> QED
      BY <1>8, <2>2, <3>1, <3>2, <3>3
  <2>4. CASE l > skip
    <3>1. l - skip \in 1..Len(found) /\ skip + (l - skip) = l
      BY <1>4, <1>5, <2>4
    <3> QED
      BY <1>5, <2>2, <3>1
  <2> QED
    BY <1>7, <2>3, <2>4
<1>13. Reads(0, from, history_offset, old, found)
  <2>1. history_offset - 0 = history_offset
    BY <1>1
  <2>2. \A i \in 1..history_offset : old[i] = log[0 + i]
    BY <1>4
  <2>3. \A k \in 1..Len(found) : 0 + found[k] \in from + 1..history_offset /\ Begins(0 + found[k])
    <3>1. \A k \in 1..Len(found) : 0 + found[k] = found[k]
      BY <1>9
    <3> QED
      BY <1>9, <1>11, <3>1
  <2>4. \A i \in from + 1..history_offset : i - 0 = i
    BY <1>8
  <2> QED
    BY <1>4, <1>5, <1>10, <1>12, <2>1, <2>2, <2>3, <2>4 DEF Reads
<1>14. Spans(Lines(old, found), from, history_offset)
  BY <1>1, <1>8, <1>13, ReadSpans
<1>15. Spans(Lines(old, found) \o scheduler_log, from, event_log_offset)
  BY <1>1, <1>8, <1>14, SpansMeet DEF TuiLogInv
<1>16. LogShape' /\ Offsets'
  BY <1>1, <1>3, <1>8 DEF LogShape, Begins, Offsets
<1>17. Spans(scheduler_log, history_offset, event_log_offset)'
  BY <1>3, <1>15 DEF Spans, Begins
<1> QED
  BY <1>16, <1>17 DEF TuiLogInv

-----------------------------------------------------------------------------
LEMMA LogSteps == TuiLogInv /\ [TuiNext]_tuiVars => TuiLogInv'
<1> SUFFICES ASSUME TuiLogInv, [TuiNext]_tuiVars PROVE TuiLogInv'
  OBVIOUS
<1>1. ASSUME UNCHANGED <<log, event_log_offset, history_offset, scheduler_log>> PROVE TuiLogInv'
  BY <1>1 DEF TuiLogInv, LogShape, Offsets, Spans, Begins
<1>2. ASSUME NEW mode, NEW retry, NEW fl, NEW st, Refresh(mode, retry, fl, st) PROVE TuiLogInv'
  BY <1>1, <1>2, Followed DEF Refresh
<1>3. CASE Tick \/ ManualRefresh \/ (\E step : CycleFilter(step)) \/ ConfirmRetry \/ ConfirmStatusUpdate
  BY <1>1, <1>2, <1>3 DEF Tick, ManualRefresh, CycleFilter, ConfirmRetry, ConfirmStatusUpdate, ChooseTarget, logVars
<1>4. CASE LoadEventHistory
  BY <1>4, WalkedBack DEF LoadEventHistory
<1>5. CASE RecordEvent
  BY <1>5, Recorded
<1>6. CASE UNCHANGED logVars
  BY <1>1, <1>6 DEF logVars
<1> QED
  BY <1>3, <1>4, <1>5, <1>6
     DEF TuiNext, Keys, Confirm, StatusChange, ChooseTarget, Highlight, SelectIndex, RequestRetry, OpenStatusFlow,
         CancelPendingAction, tuiVars

LEMMA LogInitially == TuiInit => TuiLogInv
<1> SUFFICES ASSUME TuiInit PROVE TuiLogInv
  OBVIOUS
<1>1. PICK n \in Events \cup {0}, last \in {"whole", "head"} :
          log = [i \in 1 .. n |-> [event |-> i, part |-> IF i = n THEN last ELSE "whole"]]
  BY DEF TuiInit, LogInit
<1>2. event_log_offset = Len(log) /\ history_offset = Len(log) /\ scheduler_log = <<>>
  BY DEF TuiInit, LogInit
<1>3. n \in Nat
  BY LogAssumption
<1>4. \A i \in 1..n : log[i] \in Part /\ log[i].event = i
  BY <1>1, <1>3 DEF Part
<1>5. log \in Seq(Part) /\ Len(log) = n
  <2>1. log = [i \in 1..n |-> log[i]]
    BY <1>1
  <2>2. log \in [1..n -> Part]
    BY <1>4, <2>1
  <2> QED
    BY <1>1, <1>3, <2>2
<1>6. LogShape
  BY <1>3, <1>4, <1>5 DEF LogShape
<1>7. Offsets
  BY <1>2, <1>3, <1>5 DEF Offsets
<1>8. Spans(scheduler_log, n, n)
  BY <1>2, <1>3 DEF Spans
<1> QED
  BY <1>2, <1>5, <1>6, <1>7, <1>8 DEF TuiLogInv

(* However the appends of other processes, the refreshes and the walks     *)
(* into the past interleave, the log in memory has the events in their     *)
(* order, and all that were written in one piece.                          *)
THEOREM LogIsFaithful == TuiSpec => []LogFaithful
<1>1. TuiLogInv => LogFaithful
  <2> SUFFICES ASSUME TuiLogInv PROVE LogFaithful
    OBVIOUS
  <2>1. scheduler_log \in Seq(Nat) /\ Len(scheduler_log) \in Nat
    BY DEF TuiLogInv, Spans
  <2>2. \A i \in 1 .. Len(scheduler_log) - 1 : scheduler_log[i] < scheduler_log[i + 1]
    <3> SUFFICES ASSUME NEW i \in 1 .. Len(scheduler_log) - 1 PROVE scheduler_log[i] < scheduler_log[i + 1]
      OBVIOUS
    <3>1. i \in 1..Len(scheduler_log) /\ i + 1 \in 1..Len(scheduler_log) /\ i < i + 1
      BY <2>1
    <3> QED
      BY <3>1 DEF TuiLogInv, Spans
  <2>3. \A i \in history_offset + 1 .. event_log_offset :
            log[i].part = "whole" /\ log[i].event \notin Quiet => Contains(scheduler_log, log[i].event)
    BY DEF TuiLogInv, Spans, Contains
  <2> QED
    BY <2>2, <2>3 DEF LogFaithful
<1> QED
  BY <1>1, LogInitially, LogSteps, PTL DEF TuiSpec
=============================================================================
