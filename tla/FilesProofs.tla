----------------------------- MODULE FilesProofs ------------------------------
(***************************************************************************)
(* What commands keep in files, for any number of agents.  Memory: for any *)
(* files, distances, limits and namespaces an ingest stores every chunk or *)
(* finds nearly the same, and a search finds the nearest entries.  Specs: for any specs, kills    *)
(* and table of folders a set status repairs what was left behind.         *)
(***************************************************************************)
EXTENDS Memory, Specs, FiniteSetTheorems, SequenceTheorems, TLAPS

-----------------------------------------------------------------------------
(* Numbers.                                                                *)

(* A set of natural numbers has a least one.                               *)
LEMMA LeastNat ==
    ASSUME NEW S, S \subseteq Nat, S # {}
    PROVE  \E x \in S : \A y \in S : x <= y
<1>1. PICK x \in S : \A y \in S : ~(<<y, x>> \in OpToRel(<, Nat))
  BY NatLessThanWellFounded, WFMin
<1>2. \A y \in S : ~(y < x)
  BY <1>1 DEF OpToRel
<1>3. \A y \in S : x <= y
  BY <1>2
<1> QED
  BY <1>3

(* Induction up to N, on a set of numbers.                                 *)
LEMMA UpTo ==
    ASSUME NEW N \in Nat, NEW S, 0 \in S, \A n \in 0..N : n < N /\ n \in S => n + 1 \in S
    PROVE  0..N \subseteq S
<1> SUFFICES ASSUME (0..N) \ S # {} PROVE FALSE
  OBVIOUS
<1>1. PICK m \in (0..N) \ S : \A y \in (0..N) \ S : m <= y
  <2>1. (0..N) \ S \subseteq Nat
    OBVIOUS
  <2> QED
    BY <2>1, LeastNat
<1>2. m \in 1..N /\ m - 1 \in 0..N /\ m - 1 < N
  BY <1>1
<1>3. m - 1 \in S
  BY <1>1, <1>2
<1>4. m - 1 + 1 \in S
  BY <1>2, <1>3
<1> QED
  BY <1>1, <1>2, <1>4

(* Of a nonempty finite set with a number for each element, one element    *)
(* has the least number and one the greatest.                              *)
LEMMA Extremes ==
    ASSUME NEW S, S # {}, NEW f \in [S -> Nat], NEW N \in Nat, \A x \in S : f[x] <= N
    PROVE  /\ \E x \in S : \A y \in S : f[x] <= f[y]
           /\ \E x \in S : \A y \in S : f[y] <= f[x]
<1>1. \E x \in S : \A y \in S : f[x] <= f[y]
  <2> DEFINE T == {f[x] : x \in S}
  <2>1. T \subseteq Nat /\ T # {}
    OBVIOUS
  <2>2. PICK t \in T : \A u \in T : t <= u
    BY <2>1, LeastNat
  <2> QED
    BY <2>2
<1>2. \E x \in S : \A y \in S : f[y] <= f[x]
  <2> DEFINE T == {N - f[x] : x \in S}
  <2>1. T \subseteq Nat /\ T # {}
    OBVIOUS
  <2>2. PICK t \in T : \A u \in T : t <= u
    BY <2>1, LeastNat
  <2>3. PICK x \in S : t = N - f[x]
    OBVIOUS
  <2>4. \A y \in S : N - f[x] <= N - f[y]
    BY <2>2, <2>3
  <2>5. \A y \in S : f[y] \in Nat /\ f[x] \in Nat
    OBVIOUS
  <2>6. \A y \in S : f[y] <= f[x]
    BY <2>4, <2>5
  <2> QED
    BY <2>6
<1> QED
  BY <1>1, <1>2

-----------------------------------------------------------------------------
(* Rows.                                                                   *)

Row == [text : Known, namespace : Namespaces]
Rows == DOMAIN entries

(* Every note is known, and so is every chunk of a file.                   *)
LEMMA KnownTexts ==
    /\ Notes \subseteq Known
    /\ \A d \in Documents : ToSet(ChunkFile(d)) \subseteq Known
  BY DEF Known

(* Of two rows one is nearer to a query, and nearer goes on to nearer.     *)
LEMMA NearerOrder ==
    ASSUME entries \in Seq(Row), NEW query \in Known
    PROVE  /\ \A i, j \in Rows : i # j => Nearer(i, j, query) \/ Nearer(j, i, query)
           /\ \A i \in Rows : ~Nearer(i, i, query)
           /\ \A i, j, k \in Rows : Nearer(i, j, query) /\ Nearer(j, k, query) => Nearer(i, k, query)
<1> DEFINE d == [i \in Rows |-> Distance(entries[i].text, query)]
<1>1. \A i \in Rows : i \in Nat /\ d[i] \in Nat
  <2>1. \A i \in Rows : i \in Nat /\ entries[i] \in Row
    BY DEF Rows
  <2>2. \A i \in Rows : entries[i].text \in Known
    BY <2>1 DEF Row
  <2>3. \A i \in Rows : Distance(entries[i].text, query) \in 0..MaxDistance
    BY <2>2, DistanceAssumption
  <2> QED
    BY <2>1, <2>3, MemoryAssumption
<1>2. \A i, j \in Rows : Nearer(i, j, query) <=> d[i] < d[j] \/ (d[i] = d[j] /\ i < j)
  BY DEF Nearer
<1> HIDE DEF d
<1> QED
  BY <1>1, <1>2

(* The rows are finitely many.                                             *)
LEMMA RowsFinite ==
    ASSUME entries \in Seq(Row)
    PROVE  IsFiniteSet(Rows) /\ Rows \subseteq Nat /\ \A S \in SUBSET Rows : IsFiniteSet(S) /\ Cardinality(S) \in Nat
<1>1. Rows = 1..Len(entries) /\ Len(entries) \in Nat
  BY DEF Rows
<1>2. IsFiniteSet(Rows)
  BY <1>1, FS_Interval
<1>3. ASSUME NEW S \in SUBSET Rows PROVE IsFiniteSet(S) /\ Cardinality(S) \in Nat
  <2>1. IsFiniteSet(S)
    BY <1>2, FS_Subset
  <2> QED
    BY <2>1, FS_CardinalityType
<1> QED
  BY <1>1, <1>2, <1>3

(* The n nearest of the rows R: whatever is nearer than one of them is     *)
(* one of them, so they are nearer than the others; they are at most n,    *)
(* and exactly n unless they are all of R.                                 *)
LEMMA NearestRows ==
    ASSUME entries \in Seq(Row), NEW query \in Known, NEW R \in SUBSET Rows, NEW n \in Nat
    PROVE  /\ Nearest(R, query, n) \subseteq R
           /\ \A i \in Nearest(R, query, n), j \in R \ Nearest(R, query, n) : Nearer(i, j, query)
           /\ Cardinality(Nearest(R, query, n)) <= n
           /\ Nearest(R, query, n) # R => Cardinality(Nearest(R, query, n)) = n
<1> DEFINE near == Nearest(R, query, n)
           Below(i) == {j \in R : Nearer(j, i, query)}
           rank == [i \in R |-> Cardinality(Below(i))]
<1>1. /\ \A i, j \in R : i # j => Nearer(i, j, query) \/ Nearer(j, i, query)
      /\ \A i \in R : ~Nearer(i, i, query)
      /\ \A i, j, k \in R : Nearer(i, j, query) /\ Nearer(j, k, query) => Nearer(i, k, query)
  BY NearerOrder
<1>2. \A S \in SUBSET R : IsFiniteSet(S) /\ Cardinality(S) \in Nat
  BY RowsFinite
<1>3. rank \in [R -> Nat] /\ \A i \in R : Below(i) \in SUBSET R /\ rank[i] = Cardinality(Below(i))
  BY <1>2
<1>4. near = {i \in R : rank[i] < n}
  BY DEF Nearest
<1>5. ASSUME NEW i \in R, NEW j \in R, Nearer(i, j, query) PROVE rank[i] < rank[j]
  <2>1. Below(i) \in SUBSET Below(j) /\ i \in Below(j) /\ i \notin Below(i)
    BY <1>1, <1>5
  <2>2. IsFiniteSet(Below(j)) /\ Cardinality(Below(i)) \in Nat /\ Cardinality(Below(j)) \in Nat
    BY <1>2, <1>3
  <2>3. Cardinality(Below(i)) <= Cardinality(Below(j)) /\ Cardinality(Below(i)) # Cardinality(Below(j))
    BY <2>1, <2>2, FS_Subset
  <2> QED
    BY <1>3, <2>2, <2>3
<1>6. \A i \in R : rank[i] <= Cardinality(R)
  BY <1>2, <1>3, FS_Subset
<1>7. Cardinality(R) \in Nat /\ IsFiniteSet(near) /\ Cardinality(near) \in Nat /\ near \in SUBSET R
  BY <1>2, <1>4
<1> HIDE DEF near, rank, Below
<1>8. \A i \in near, j \in R \ near : Nearer(i, j, query)
  <2> SUFFICES ASSUME NEW i \in near, NEW j \in R \ near, ~Nearer(i, j, query) PROVE FALSE
    OBVIOUS
  <2>1. i \in R /\ j \in R /\ i # j /\ rank[i] < n /\ ~(rank[j] < n)
    BY <1>4
  <2>2. rank[j] < rank[i]
    BY <1>1, <1>5, <2>1
  <2> QED
    BY <1>3, <2>1, <2>2
<1>9. Cardinality(near) <= n
  <2>1. CASE near = {}
    BY <2>1, FS_EmptySet
  <2>2. CASE near # {}
    <3> DEFINE f == [i \in near |-> rank[i]]
    <3>1. f \in [near -> Nat] /\ \A i \in near : f[i] <= Cardinality(R)
      BY <1>3, <1>6, <1>7
    <3>2. PICK m \in near : \A y \in near : f[y] <= f[m]
      BY <1>7, <2>2, <3>1, Extremes
    <3>3. m \in R /\ rank[m] < n /\ rank[m] \in Nat
      BY <1>3, <1>4
    <3>4. near \ {m} \subseteq Below(m)
      <4> SUFFICES ASSUME NEW y \in near, y # m PROVE y \in Below(m)
        OBVIOUS
      <4>1. y \in R /\ ~(rank[m] < rank[y])
        BY <1>3, <1>4, <3>2, <3>3
      <4>2. Nearer(y, m, query)
        BY <1>1, <1>5, <3>3, <4>1
      <4> QED
        BY <4>1, <4>2 DEF Below
    <3>5. IsFiniteSet(Below(m)) /\ rank[m] = Cardinality(Below(m))
      BY <1>2, <1>3, <3>3
    <3>6. Cardinality(near \ {m}) <= rank[m]
      BY <3>4, <3>5, FS_Subset
    <3>7. Cardinality(near \ {m}) = Cardinality(near) - 1
      BY <1>7, FS_RemoveElement
    <3> QED
      BY <1>7, <3>3, <3>6, <3>7
  <2> QED
    BY <2>1, <2>2
<1>10. near # R => Cardinality(near) >= n
  <2> SUFFICES ASSUME near # R PROVE Cardinality(near) >= n
    OBVIOUS
  <2> DEFINE f == [i \in R \ near |-> rank[i]]
  <2>1. f \in [R \ near -> Nat] /\ R \ near # {} /\ \A i \in R \ near : f[i] <= Cardinality(R)
    BY <1>3, <1>6, <1>7
  <2>2. PICK m \in R \ near : \A y \in R \ near : f[m] <= f[y]
    BY <1>7, <2>1, Extremes
  <2>3. m \in R /\ rank[m] \in Nat /\ rank[m] >= n
    BY <1>3, <1>4
  <2>4. Below(m) \subseteq near
    <3> SUFFICES ASSUME NEW y \in Below(m), y \notin near PROVE FALSE
      OBVIOUS
    <3>1. y \in R /\ Nearer(y, m, query)
      BY DEF Below
    <3>2. rank[y] < rank[m] /\ rank[m] <= rank[y]
      BY <1>5, <2>2, <2>3, <3>1
    <3> QED
      BY <1>3, <2>3, <3>1, <3>2
  <2>5. rank[m] <= Cardinality(near)
    BY <1>3, <1>7, <2>3, <2>4, FS_Subset
  <2> QED
    BY <1>7, <2>3, <2>5
<1> QED
  BY <1>7, <1>8, <1>9, <1>10 DEF near

(* A search finds the nearest entries of the namespace.                    *)
LEMMA SearchNearest ==
    ASSUME entries \in Seq(Row)
    PROVE  SearchFinds
<1> SUFFICES ASSUME NEW query \in Notes, NEW scope \in Scopes, NEW limit \in 1..MaxLimit,
                    NEW threshold \in Thresholds
             PROVE  LET found == Search(query, scope, limit, threshold)
                        missed == Within(RowsOf(scope), query, threshold) \ found
                    IN  /\ \A i \in found, j \in missed : Nearer(i, j, query)
                        /\ \/ Cardinality(found) = limit
                           \/ \A j \in missed :
                                 Cardinality({i \in DOMAIN entries \ RowsOf(scope) : Nearer(i, j, query)})
                                     > (OverFetch - 1) * limit
  BY DEF SearchFinds
<1> DEFINE many == IF scope = Namespaces THEN limit ELSE limit * OverFetch
           fetched == Nearest(Rows, query, many)
           own == fetched \cap RowsOf(scope)
           near == Nearest(own, query, limit)
           found == Within(near, query, threshold)
           missed == Within(RowsOf(scope), query, threshold) \ found
           Others(j) == {i \in Rows \ RowsOf(scope) : Nearer(i, j, query)}
<1>1. query \in Known /\ limit \in Nat /\ limit >= 1 /\ MaxLimit \in Nat /\ OverFetch \in Nat /\ OverFetch >= 1
  BY MemoryAssumption, KnownTexts
<1>2. /\ many \in Nat
      /\ scope = Namespaces => many = limit
      /\ scope # Namespaces => many - limit = (OverFetch - 1) * limit
  BY <1>1
<1>3. /\ fetched \subseteq Rows
      /\ \A i \in fetched, j \in Rows \ fetched : Nearer(i, j, query)
      /\ fetched # Rows => Cardinality(fetched) = many
  BY <1>1, <1>2, NearestRows
<1>4. own \in SUBSET Rows /\ RowsOf(scope) \in SUBSET Rows
  BY <1>3 DEF RowsOf, Rows
<1>5. /\ near \subseteq own
      /\ \A i \in near, j \in own \ near : Nearer(i, j, query)
      /\ Cardinality(near) <= limit
      /\ near # own => Cardinality(near) = limit
  BY <1>1, <1>4, NearestRows
<1>6. \A S \in SUBSET Rows : IsFiniteSet(S) /\ Cardinality(S) \in Nat
  BY RowsFinite
<1>7. scope = Namespaces => RowsOf(scope) = Rows
  <2>1. \A i \in Rows : entries[i] \in Row
    BY DEF Rows
  <2>2. \A i \in Rows : entries[i].namespace \in Namespaces
    BY <2>1 DEF Row
  <2> QED
    BY <2>2 DEF RowsOf, Rows
<1> HIDE DEF many, fetched, near
<1>8. \A i \in near, j \in RowsOf(scope) \ near : Nearer(i, j, query)
  BY <1>3, <1>4, <1>5
<1>9. found \subseteq near /\ missed \subseteq RowsOf(scope) \ near /\ missed \subseteq Rows
  BY <1>4 DEF Within
<1>10. missed # {} => found = near
  <2> SUFFICES ASSUME NEW j \in missed, NEW i \in near PROVE i \in found
    BY <1>9
  <2>1. Nearer(i, j, query) /\ i \in Rows /\ j \in Rows
    BY <1>4, <1>5, <1>8, <1>9
  <2>2. entries[i].text \in Known /\ entries[j].text \in Known
    <3>1. entries[i] \in Row /\ entries[j] \in Row
      BY <2>1 DEF Rows
    <3> QED
      BY <3>1 DEF Row
  <2>3. /\ Distance(entries[i].text, query) \in 0..MaxDistance
        /\ Distance(entries[j].text, query) \in 0..MaxDistance
        /\ MaxDistance \in Nat /\ threshold \in Nat
    BY <1>1, <2>2, DistanceAssumption, MemoryAssumption
  <2>4. Distance(entries[j].text, query) <= threshold
    BY DEF Within
  <2>5. Distance(entries[i].text, query) <= Distance(entries[j].text, query)
    BY <2>1, <2>3 DEF Nearer
  <2>6. Distance(entries[i].text, query) <= threshold
    BY <2>3, <2>4, <2>5
  <2> QED
    BY <2>6 DEF Within
<1>11. \A i \in found, j \in missed : Nearer(i, j, query)
  BY <1>8, <1>9
<1>12. ASSUME NEW j \in missed, Cardinality(found) # limit
      PROVE  Cardinality(Others(j)) > (OverFetch - 1) * limit
  <2>1. near = own /\ Cardinality(own) < limit /\ Cardinality(own) \in Nat /\ j \in RowsOf(scope) \ own
    <3>1. found = near /\ j \in RowsOf(scope) \ near
      BY <1>9, <1>10
    <3>2. near = own /\ Cardinality(near) <= limit
      BY <1>5, <1>12, <3>1
    <3>3. Cardinality(near) \in Nat
      BY <1>4, <1>6, <3>2
    <3> QED
      BY <1>1, <1>12, <3>1, <3>2, <3>3
  <2>2. j \in Rows \ fetched
    BY <1>4, <2>1
  <2>3. Cardinality(fetched) = many
    BY <1>3, <2>2
  <2>4. scope # Namespaces
    <3> SUFFICES ASSUME scope = Namespaces PROVE FALSE
      OBVIOUS
    <3>1. own = fetched /\ many = limit
      BY <1>2, <1>3, <1>7
    <3> HIDE DEF own
    <3>2. Cardinality(own) = limit
      BY <2>3, <3>1
    <3> QED
      BY <1>1, <2>1, <3>2
  <2>5. fetched \ RowsOf(scope) \subseteq Others(j)
    BY <1>3, <2>2
  <2>6. IsFiniteSet(Others(j)) /\ Cardinality(Others(j)) \in Nat
    BY <1>6
  <2>7. Cardinality(fetched \ RowsOf(scope)) <= Cardinality(Others(j))
    BY <2>5, <2>6, FS_Subset
  <2>8. Cardinality(fetched \ RowsOf(scope)) = Cardinality(fetched) - Cardinality(own)
    <3>1. fetched \ RowsOf(scope) = fetched \ own
      OBVIOUS
    <3> QED
      BY <1>3, <1>6, <3>1, FS_Difference
  <2>9. many - Cardinality(own) > many - limit
    BY <1>1, <1>2, <2>1
  <2> HIDE DEF own, missed, Others
  <2>10. Cardinality(Others(j)) > many - limit
    BY <1>1, <1>2, <2>1, <2>3, <2>6, <2>7, <2>8, <2>9
  <2> QED
    BY <1>2, <2>4, <2>10
<1>13. found = Search(query, scope, limit, threshold) /\ Rows = DOMAIN entries
  BY DEF fetched, many, near, Search, Rows
<1> HIDE DEF missed, Others, found
<1>14. missed = Within(RowsOf(scope), query, threshold) \ found /\ \A j : Others(j) = {i \in Rows \ RowsOf(scope) : Nearer(i, j, query)}
  BY DEF missed, Others
<1> QED
  BY <1>11, <1>12, <1>13, <1>14

-----------------------------------------------------------------------------
(* Chunks.                                                                 *)

(* A sequence of N steps, each a function of what the one before gave,     *)
(* gives something of the type that every step keeps.                      *)
LEMMA Iteration ==
    ASSUME NEW T, NEW base \in T, NEW N \in Nat, NEW step \in [1..N -> [T -> T]]
    PROVE  \E f \in [0..N -> T] : f[0] = base /\ \A n \in 1..N : f[n] = step[n][f[n - 1]]
<1> DEFINE Steps(f, m) == f[0] = base /\ \A n \in 1..m : f[n] = step[n][f[n - 1]]
           S == {m \in 0..N : \E f \in [0..m -> T] : Steps(f, m)}
<1>1. 0 \in S
  <2> DEFINE f == [n \in 0..0 |-> base]
  <2>1. f \in [0..0 -> T] /\ Steps(f, 0)
    OBVIOUS
  <2> HIDE DEF f
  <2> QED
    BY <2>1
<1>2. ASSUME NEW m \in 0..N, m < N, m \in S PROVE m + 1 \in S
  <2>1. PICK f \in [0..m -> T] : Steps(f, m)
    BY <1>2
  <2> DEFINE g == [n \in 0..(m + 1) |-> IF n = m + 1 THEN step[m + 1][f[m]] ELSE f[n]]
  <2>2. m + 1 \in 1..N /\ m \in 0..m /\ f[m] \in T
    BY <1>2
  <2>3. step[m + 1][f[m]] \in T
    BY <2>2
  <2>4. \A n \in 0..(m + 1) : n # m + 1 => n \in 0..m
    OBVIOUS
  <2>5. g \in [0..(m + 1) -> T]
    BY <2>3, <2>4
  <2>6. g[0] = base
    BY <2>1
  <2>7. ASSUME NEW n \in 1..(m + 1) PROVE g[n] = step[n][g[n - 1]]
    <3>1. n - 1 \in 0..m /\ n - 1 # m + 1 /\ n - 1 \in 0..(m + 1) /\ n \in 0..(m + 1)
      OBVIOUS
    <3>2. g[n - 1] = f[n - 1]
      BY <3>1
    <3>3. CASE n = m + 1
      BY <3>1, <3>2, <3>3
    <3>4. CASE n # m + 1
      <4>1. n \in 1..m /\ g[n] = f[n]
        BY <3>1, <3>4
      <4> QED
        BY <2>1, <3>2, <4>1
    <3> QED
      BY <3>3, <3>4
  <2> HIDE DEF g
  <2> QED
    BY <2>2, <2>5, <2>6, <2>7
<1> HIDE DEF S
<1>3. 0..N \subseteq S
  BY <1>1, <1>2, UpTo
<1>4. N \in S
  BY <1>3
<1> QED
  BY <1>4 DEF S

(* What the packing of a file has gathered so far.                         *)
Packing == [chunks : Seq(Texts), current : Texts, length : Nat]
Has(acc, p) == p \subseteq ToSet(acc.current) \/ \E c \in ToSet(acc.chunks) : p \subseteq ToSet(c)

(* Appending adds an element and keeps those there were.                   *)
LEMMA AppendSet ==
    ASSUME NEW T, NEW s \in Seq(T), NEW x \in T
    PROVE  Append(s, x) \in Seq(T) /\ ToSet(Append(s, x)) = ToSet(s) \cup {x}
<1>1. /\ Append(s, x) \in Seq(T) /\ Len(s) \in Nat /\ DOMAIN s = 1..Len(s)
      /\ DOMAIN Append(s, x) = 1..(Len(s) + 1) /\ Append(s, x)[Len(s) + 1] = x
      /\ \A i \in 1..Len(s) : Append(s, x)[i] = s[i]
  BY AppendProperties, LenProperties
<1>2. \A i \in 1..(Len(s) + 1) : i \in 1..Len(s) \/ i = Len(s) + 1
  BY <1>1
<1>3. \A i \in 1..Len(s) : i \in 1..(Len(s) + 1)
  BY <1>1
<1>4. Len(s) + 1 \in 1..(Len(s) + 1)
  BY <1>1
<1> QED
  BY <1>1, <1>2, <1>3, <1>4 DEF ToSet

(* A sequence of one or two has these.                                     *)
LEMMA ShortSet ==
    ASSUME NEW T, NEW x \in T, NEW y \in T
    PROVE  /\ <<>> \in Seq(T) /\ ToSet(<<>>) = {}
           /\ <<x>> \in Seq(T) /\ ToSet(<<x>>) = {x}
           /\ <<x, y>> \in Seq(T) /\ ToSet(<<x, y>>) = {x, y} /\ <<x, y>>[1] = x
<1>1. DOMAIN <<x>> = 1..1 /\ DOMAIN <<x, y>> = 1..2 /\ 1..1 = {1} /\ 1..2 = {1, 2}
  OBVIOUS
<1> QED
  BY <1>1 DEF ToSet

(* Packing a sentence loses nothing.                                       *)
LEMMA SentencePacked ==
    ASSUME NEW acc \in Packing, NEW s \in Sentences
    PROVE  /\ PackSentence(acc, s) \in Packing
           /\ \A p : Has(acc, p) => Has(PackSentence(acc, s), p)
           /\ Has(PackSentence(acc, s), {s})
<1>1. acc.chunks \in Seq(Texts) /\ acc.current \in Texts /\ acc.length \in Nat /\ Size[s] \in Nat
  BY MemoryAssumption DEF Packing
<1>2. /\ Append(acc.chunks, acc.current) \in Seq(Texts)
      /\ ToSet(Append(acc.chunks, acc.current)) = ToSet(acc.chunks) \cup {acc.current}
  BY <1>1, AppendSet
<1>3. /\ Append(acc.current, s) \in Texts /\ ToSet(Append(acc.current, s)) = ToSet(acc.current) \cup {s}
  BY <1>1, AppendSet DEF Texts
<1>4. <<s>> \in Texts /\ ToSet(<<s>>) = {s}
  BY ShortSet DEF Texts
<1>5. \/ PackSentence(acc, s) = [chunks |-> Append(acc.chunks, acc.current), current |-> <<s>>, length |-> Size[s]]
      \/ PackSentence(acc, s) = [chunks |-> acc.chunks, current |-> Append(acc.current, s), length |-> acc.length + Size[s]]
  BY <1>1 DEF PackSentence, Packing
<1> DEFINE q == PackSentence(acc, s)
<1>6. /\ q = [chunks |-> q.chunks, current |-> q.current, length |-> q.length] /\ q.length \in Nat
      /\ \/ q.chunks = Append(acc.chunks, acc.current) /\ q.current = <<s>>
         \/ q.chunks = acc.chunks /\ q.current = Append(acc.current, s)
  BY <1>1, <1>5
<1> HIDE DEF q
<1>7. q \in Packing
  BY <1>1, <1>2, <1>3, <1>4, <1>6 DEF Packing
<1>8. (\A p : Has(acc, p) => Has(q, p)) /\ Has(q, {s})
  BY <1>2, <1>3, <1>4, <1>6 DEF Has
<1> QED
  BY <1>7, <1>8 DEF q

(* Packing a row loses nothing, and keeps the heading in front.            *)
Headed(acc, h) ==
    /\ acc.current # <<>> /\ acc.current[1] = h
    /\ \A c \in ToSet(acc.chunks) : h \in ToSet(c)

LEMMA RowPacked ==
    ASSUME NEW acc \in Packing, NEW h \in Sentences, Headed(acc, h), NEW row \in Sentences
    PROVE  /\ PackRow(acc, row) \in Packing /\ Headed(PackRow(acc, row), h)
           /\ \A p : Has(acc, p) => Has(PackRow(acc, row), p)
           /\ Has(PackRow(acc, row), {h, row}) /\ Len(PackRow(acc, row).current) > 1
<1>1. /\ acc.chunks \in Seq(Texts) /\ acc.current \in Texts /\ acc.length \in Nat
      /\ Size[row] \in Nat /\ Size[h] \in Nat
  BY MemoryAssumption DEF Packing
<1>2. acc.current[1] = h /\ h \in ToSet(acc.current) /\ Len(acc.current) \in Nat /\ Len(acc.current) >= 1
  BY <1>1, EmptySeq, LenProperties DEF Headed, ToSet, Texts
<1>3. /\ Append(acc.chunks, acc.current) \in Seq(Texts)
      /\ ToSet(Append(acc.chunks, acc.current)) = ToSet(acc.chunks) \cup {acc.current}
  BY <1>1, AppendSet
<1>4. /\ Append(acc.current, row) \in Texts /\ ToSet(Append(acc.current, row)) = ToSet(acc.current) \cup {row}
      /\ Append(acc.current, row)[1] = h /\ Len(Append(acc.current, row)) = Len(acc.current) + 1
      /\ Append(acc.current, row) # <<>>
  BY <1>1, <1>2, AppendSet, AppendProperties DEF Texts
<1>5. /\ <<h, row>> \in Texts /\ ToSet(<<h, row>>) = {h, row} /\ <<h, row>>[1] = h
      /\ <<h, row>> # <<>> /\ Len(<<h, row>>) = 2
  BY ShortSet DEF Texts
<1>6. \/ PackRow(acc, row) = [chunks |-> Append(acc.chunks, acc.current), current |-> <<h, row>>,
                              length |-> Size[h] + Size[row] + 1]
      \/ PackRow(acc, row) = [chunks |-> acc.chunks, current |-> Append(acc.current, row),
                              length |-> acc.length + Size[row] + 1]
  BY <1>1, <1>2 DEF PackRow, Packing
<1> DEFINE q == PackRow(acc, row)
<1>7. /\ q = [chunks |-> q.chunks, current |-> q.current, length |-> q.length] /\ q.length \in Nat
      /\ \/ q.chunks = Append(acc.chunks, acc.current) /\ q.current = <<h, row>>
         \/ q.chunks = acc.chunks /\ q.current = Append(acc.current, row)
  BY <1>1, <1>6
<1> HIDE DEF q
<1>8. q \in Packing
  BY <1>1, <1>3, <1>4, <1>5, <1>7 DEF Packing
<1>9. q.current # <<>> /\ q.current[1] = h /\ Len(q.current) > 1
  <2>1. CASE q.current = <<h, row>>
    BY <1>5, <2>1
  <2>2. CASE q.current = Append(acc.current, row)
    BY <1>2, <1>4, <2>2
  <2> QED
    BY <1>7, <2>1, <2>2
<1>10. \A c \in ToSet(q.chunks) : h \in ToSet(c)
  BY <1>2, <1>3, <1>7 DEF Headed
<1>11. (\A p : Has(acc, p) => Has(q, p)) /\ Has(q, {h, row})
  BY <1>2, <1>3, <1>4, <1>5, <1>7 DEF Has
<1> QED
  BY <1>8, <1>9, <1>10, <1>11 DEF q, Headed

(* A packed section has each of its sentences.                             *)
LEMMA SectionPacked ==
    ASSUME NEW section \in Texts
    PROVE  Packed(section) \in Packing /\ \A k \in DOMAIN section : Has(Packed(section), {section[k]})
<1> DEFINE N == Len(section)
           base == [chunks |-> <<>>, current |-> <<>>, length |-> 0]
           step == [n \in 1..N |-> [acc \in Packing |-> PackSentence(acc, section[n])]]
           F(g) == [n \in 0..N |-> IF n = 0 THEN base ELSE PackSentence(g[n - 1], section[n])]
           packed == CHOOSE g : g = F(g)
<1>1. N \in Nat /\ DOMAIN section = 1..N /\ \A n \in 1..N : section[n] \in Sentences
  BY LenProperties DEF Texts
<1>2. base \in Packing
  BY DEF Packing, Texts
<1>3. step \in [1..N -> [Packing -> Packing]]
  BY <1>1, SentencePacked
<1>4. \E f : f = F(f)
  <2>1. PICK f \in [0..N -> Packing] : f[0] = base /\ \A n \in 1..N : f[n] = step[n][f[n - 1]]
    <3>1. N \in Nat
      BY <1>1
    <3> HIDE DEF base, step, N
    <3> QED
      BY <1>2, <1>3, <3>1, Iteration
  <2>2. ASSUME NEW n \in 1..N PROVE f[n] = PackSentence(f[n - 1], section[n])
    <3>1. n - 1 \in 0..N
      BY <1>1
    <3> QED
      BY <2>1, <3>1
  <2>3. \A n \in 0..N : n = 0 \/ n \in 1..N
    BY <1>1
  <2> HIDE DEF base
  <2>4. f = F(f)
    BY <2>1, <2>2, <2>3
  <2> QED
    BY <2>4
<1>5. packed = F(packed)
  BY <1>4
<1> HIDE DEF packed, base
<1>6. packed[0] = base /\ \A n \in 1..N : packed[n] = PackSentence(packed[n - 1], section[n])
  <2>1. 0 \in 0..N /\ \A n \in 1..N : n \in 0..N /\ n # 0
    BY <1>1
  <2> QED
    BY <1>5, <2>1
<1> DEFINE S == {n \in 0..N : packed[n] \in Packing /\ \A k \in 1..n : Has(packed[n], {section[k]})}
<1>7. 0 \in S
  BY <1>1, <1>2, <1>6
<1>8. ASSUME NEW n \in 0..N, n < N, n \in S PROVE n + 1 \in S
  <2>1. n + 1 \in 1..N /\ n + 1 \in 0..N /\ n + 1 - 1 = n
    BY <1>1, <1>8
  <2>2. packed[n + 1] = PackSentence(packed[n], section[n + 1])
    BY <1>6, <2>1
  <2>3. /\ packed[n] \in Packing /\ \A k \in 1..n : Has(packed[n], {section[k]})
        /\ section[n + 1] \in Sentences
    BY <1>1, <1>8, <2>1
  <2>4. /\ packed[n + 1] \in Packing /\ Has(packed[n + 1], {section[n + 1]})
        /\ \A p : Has(packed[n], p) => Has(packed[n + 1], p)
    BY <2>2, <2>3, SentencePacked
  <2>5. \A k \in 1..(n + 1) : k \in 1..n \/ k = n + 1
    BY <1>1
  <2> QED
    BY <2>1, <2>3, <2>4, <2>5
<1> HIDE DEF S
<1>9. 0..N \subseteq S
  BY <1>1, <1>7, <1>8, UpTo
<1>10. N \in S
  BY <1>1, <1>9
<1>11. Packed(section) = packed[N]
  BY DEF Packed, packed, base
<1> QED
  BY <1>1, <1>10, <1>11 DEF S

(* So do the chunks of a section.                                          *)
LEMMA SectionChunks ==
    ASSUME NEW section \in Texts
    PROVE  /\ SplitIfLarge(section) \in Seq(Texts)
           /\ \A k \in DOMAIN section : \E c \in ToSet(SplitIfLarge(section)) : {section[k]} \subseteq ToSet(c)
<1> DEFINE p == Packed(section)
<1>1. p \in Packing /\ \A k \in DOMAIN section : Has(p, {section[k]})
  BY SectionPacked
<1>2. p.chunks \in Seq(Texts) /\ p.current \in Texts
  BY <1>1 DEF Packing
<1>3. SplitIfLarge(section) = <<section>> \/ SplitIfLarge(section) = Append(p.chunks, p.current)
  BY DEF SplitIfLarge
<1>4. CASE SplitIfLarge(section) = <<section>>
  <2>1. \A k \in DOMAIN section : {section[k]} \subseteq ToSet(section)
    BY DEF ToSet
  <2>2. <<section>> \in Seq(Texts) /\ ToSet(<<section>>) = {section}
    BY ShortSet
  <2> QED
    BY <1>4, <2>1, <2>2
<1> HIDE DEF p
<1>5. CASE SplitIfLarge(section) = Append(p.chunks, p.current)
  <2>1. Append(p.chunks, p.current) \in Seq(Texts) /\ ToSet(Append(p.chunks, p.current)) = ToSet(p.chunks) \cup {p.current}
    BY <1>2, AppendSet
  <2> QED
    BY <1>1, <1>5, <2>1 DEF Has
<1> QED
  BY <1>3, <1>4, <1>5

(* The rows of a table are packed each with the heading.                   *)
LEMMA RowsPacked ==
    ASSUME NEW rows \in Texts, rows # <<>>
    PROVE  LET acc == PackedRows(rows)
           IN  /\ acc \in Packing /\ Headed(acc, rows[1])
               /\ Len(rows) > 1 => Len(acc.current) > 1
               /\ \A k \in 2..Len(rows) : Has(acc, {rows[1], rows[k]})
<1> DEFINE N == Len(rows) - 1
           h == rows[1]
           base == [chunks |-> <<>>, current |-> <<h>>, length |-> Size[h]]
           Good == {acc \in Packing : Headed(acc, h)}
           step == [n \in 1..N |-> [acc \in Good |-> PackRow(acc, rows[n + 1])]]
           F(g) == [n \in 1..Len(rows) |-> IF n = 1 THEN base ELSE PackRow(g[n - 1], rows[n])]
           packed == CHOOSE g : g = F(g)
<1>1. /\ Len(rows) \in Nat /\ DOMAIN rows = 1..Len(rows) /\ \A n \in 1..Len(rows) : rows[n] \in Sentences
      /\ Len(rows) # 0
  BY LenProperties, EmptySeq DEF Texts
<1>2. /\ N \in Nat /\ Len(rows) = N + 1 /\ h \in Sentences
      /\ \A n \in 1..N : n + 1 \in 1..Len(rows) /\ rows[n + 1] \in Sentences
  BY <1>1
<1>3. base \in Good
  <2>1. Size[h] \in Nat /\ <<h>> \in Texts /\ <<h>> # <<>> /\ <<h>>[1] = h /\ <<>> \in Seq(Texts) /\ ToSet(<<>>) = {}
    BY <1>2, MemoryAssumption, ShortSet DEF Texts
  <2> QED
    BY <2>1 DEF Packing, Headed
<1>4. step \in [1..N -> [Good -> Good]]
  BY <1>2, RowPacked
<1>5. \E f : f = F(f)
  <2>1. PICK f \in [0..N -> Good] : f[0] = base /\ \A n \in 1..N : f[n] = step[n][f[n - 1]]
    <3> HIDE DEF base, step, Good, N
    <3> QED
      BY <1>2, <1>3, <1>4, Iteration
  <2> DEFINE g == [n \in 1..Len(rows) |-> f[n - 1]]
  <2>2. ASSUME NEW n \in 1..Len(rows) PROVE g[n] = IF n = 1 THEN base ELSE PackRow(g[n - 1], rows[n])
    <3>1. CASE n = 1
      BY <2>1, <3>1
    <3>2. CASE n # 1
      <4>1. n - 1 \in 1..N /\ n - 1 - 1 \in 0..N /\ n - 1 \in 1..Len(rows) /\ n - 1 + 1 = n
        BY <1>2, <3>2
      <4>2. f[n - 1] = step[n - 1][f[n - 1 - 1]] /\ f[n - 1 - 1] \in Good
        BY <2>1, <4>1
      <4>3. step[n - 1][f[n - 1 - 1]] = PackRow(f[n - 1 - 1], rows[n])
        BY <4>1, <4>2
      <4>4. g[n] = f[n - 1] /\ g[n - 1] = f[n - 1 - 1]
        BY <4>1
      <4> QED
        BY <3>2, <4>2, <4>3, <4>4
    <3> QED
      BY <3>1, <3>2
  <2>3. g = [n \in 1..Len(rows) |-> g[n]]
    OBVIOUS
  <2> HIDE DEF g, base
  <2>4. g = F(g)
    BY <2>2, <2>3
  <2> QED
    BY <2>4
<1>6. packed = F(packed)
  BY <1>5
<1> HIDE DEF packed, base, Good, step
<1>7. packed[1] = base /\ \A n \in 1..N : packed[n + 1] = PackRow(packed[n], rows[n + 1])
  <2>1. 1 \in 1..Len(rows) /\ \A n \in 1..N : n + 1 \in 1..Len(rows) /\ n + 1 # 1 /\ n + 1 - 1 = n
    BY <1>2
  <2> QED
    BY <1>6, <2>1
<1> DEFINE S == {n \in 0..N : /\ packed[n + 1] \in Good /\ (n > 0 => Len(packed[n + 1].current) > 1)
                              /\ \A k \in 2..(n + 1) : Has(packed[n + 1], {h, rows[k]})}
<1>8. 0 \in S
  <2>1. 0 \in 0..N /\ 0 + 1 = 1 /\ 2..(0 + 1) = {} /\ ~(0 > 0)
    BY <1>2
  <2> QED
    BY <1>3, <1>7, <2>1
<1>9. ASSUME NEW n \in 0..N, n < N, n \in S PROVE n + 1 \in S
  <2>1. n + 1 \in 1..N /\ n + 1 \in 0..N
    BY <1>2, <1>9
  <2>2. packed[n + 1 + 1] = PackRow(packed[n + 1], rows[n + 1 + 1]) /\ rows[n + 1 + 1] \in Sentences
    BY <1>2, <1>7, <2>1
  <2>3. /\ packed[n + 1] \in Packing /\ Headed(packed[n + 1], h)
        /\ \A k \in 2..(n + 1) : Has(packed[n + 1], {h, rows[k]})
    BY <1>9 DEF Good
  <2> DEFINE acc == packed[n + 1]
             row == rows[n + 1 + 1]
  <2> HIDE DEF acc, row, h, N
  <2>6. acc \in Packing /\ Headed(acc, h) /\ row \in Sentences /\ h \in Sentences
    BY <1>2, <2>2, <2>3 DEF acc, row
  <2>7. /\ PackRow(acc, row) \in Packing /\ Headed(PackRow(acc, row), h)
        /\ Has(PackRow(acc, row), {h, row}) /\ Len(PackRow(acc, row).current) > 1
        /\ \A p : Has(acc, p) => Has(PackRow(acc, row), p)
    BY <2>6, RowPacked
  <2>4. /\ packed[n + 1 + 1] \in Packing /\ Headed(packed[n + 1 + 1], h)
        /\ Has(packed[n + 1 + 1], {h, rows[n + 1 + 1]}) /\ Len(packed[n + 1 + 1].current) > 1
        /\ \A p : Has(packed[n + 1], p) => Has(packed[n + 1 + 1], p)
    BY <2>2, <2>7 DEF acc, row
  <2> USE DEF N
  <2>5. \A k \in 2..(n + 1 + 1) : k \in 2..(n + 1) \/ k = n + 1 + 1
    BY <1>2
  <2> QED
    BY <2>1, <2>3, <2>4, <2>5 DEF Good
<1> HIDE DEF S
<1>10. 0..N \subseteq S
  BY <1>2, <1>8, <1>9, UpTo
<1>11. N \in S
  BY <1>2, <1>10
<1>12. PackedRows(rows) = packed[N + 1]
  BY <1>2 DEF PackedRows, packed, base
<1> QED
  BY <1>2, <1>11, <1>12 DEF S, Good

(* Joining two sequences has what both have.                               *)
LEMMA JoinSet ==
    ASSUME NEW T, NEW s \in Seq(T), NEW t \in Seq(T)
    PROVE  s \o t \in Seq(T) /\ ToSet(s \o t) = ToSet(s) \cup ToSet(t)
<1> DEFINE m == Len(s)
           n == Len(t)
           j == s \o t
<1>1. /\ j \in Seq(T) /\ DOMAIN j = 1..(m + n) /\ m \in Nat /\ n \in Nat
      /\ \A i \in 1..(m + n) : j[i] = IF i <= m THEN s[i] ELSE t[i - m]
      /\ DOMAIN s = 1..m /\ DOMAIN t = 1..n
  BY ConcatProperties, LenProperties
<1> HIDE DEF m, n, j
<1>2. ToSet(j) \subseteq ToSet(s) \cup ToSet(t)
  <2> SUFFICES ASSUME NEW i \in 1..(m + n) PROVE j[i] \in ToSet(s) \cup ToSet(t)
    BY <1>1 DEF ToSet
  <2>1. i <= m => i \in 1..m
    BY <1>1
  <2>2. ~(i <= m) => i - m \in 1..n
    BY <1>1
  <2> QED
    BY <1>1, <2>1, <2>2 DEF ToSet
<1>3. ToSet(s) \subseteq ToSet(j)
  <2> SUFFICES ASSUME NEW i \in 1..m PROVE s[i] \in ToSet(j)
    BY <1>1 DEF ToSet
  <2>1. i \in 1..(m + n) /\ i <= m
    BY <1>1
  <2> QED
    BY <1>1, <2>1 DEF ToSet
<1>4. ToSet(t) \subseteq ToSet(j)
  <2> SUFFICES ASSUME NEW i \in 1..n PROVE t[i] \in ToSet(j)
    BY <1>1 DEF ToSet
  <2>1. m + i \in 1..(m + n) /\ ~(m + i <= m) /\ m + i - m = i
    BY <1>1
  <2>2. j[m + i] = t[i]
    BY <1>1, <2>1
  <2> QED
    BY <1>1, <2>1, <2>2 DEF ToSet
<1> QED
  BY <1>1, <1>2, <1>3, <1>4 DEF j

(* A sequence has its first element and those of its tail.                 *)
LEMMA TailSet ==
    ASSUME NEW T, NEW s \in Seq(T), s # <<>>
    PROVE  Tail(s) \in Seq(T) /\ s[1] \in T /\ ToSet(s) = {s[1]} \cup ToSet(Tail(s))
<1> DEFINE t == Tail(s)
<1>1. /\ Len(s) \in Nat /\ Len(s) >= 1 /\ DOMAIN s = 1..Len(s) /\ \A i \in 1..Len(s) : s[i] \in T
      /\ t \in Seq(T) /\ DOMAIN t = 1..(Len(s) - 1) /\ \A i \in 1..(Len(s) - 1) : t[i] = s[i + 1]
  BY EmptySeq, LenProperties, HeadTailProperties
<1> HIDE DEF t
<1>2. \A i \in 1..Len(s) : i = 1 \/ (i - 1 \in 1..(Len(s) - 1) /\ i - 1 + 1 = i)
  BY <1>1
<1>3. \A i \in 1..(Len(s) - 1) : i + 1 \in 1..Len(s)
  BY <1>1
<1>4. 1 \in 1..Len(s)
  BY <1>1
<1>5. ToSet(s) \subseteq {s[1]} \cup ToSet(t)
  <2> SUFFICES ASSUME NEW i \in 1..Len(s) PROVE s[i] = s[1] \/ s[i] \in ToSet(t)
    BY <1>1 DEF ToSet
  <2>1. CASE i # 1
    <3>1. i - 1 \in 1..(Len(s) - 1) /\ t[i - 1] = s[i]
      BY <1>1, <1>2, <2>1
    <3> QED
      BY <1>1, <3>1 DEF ToSet
  <2> QED
    BY <2>1
<1>6. {s[1]} \cup ToSet(t) \subseteq ToSet(s)
  BY <1>1, <1>3, <1>4 DEF ToSet
<1> QED
  BY <1>1, <1>4, <1>5, <1>6 DEF t

(* Removing an element leaves the others.                                  *)
LEMMA RemoveSet ==
    ASSUME NEW T, NEW s \in Seq(T), NEW i \in DOMAIN s
    PROVE  RemoveAt(s, i) \in Seq(T) /\ s[i] \in T /\ ToSet(s) \subseteq ToSet(RemoveAt(s, i)) \cup {s[i]}
<1> DEFINE a == SubSeq(s, 1, i - 1)
           b == SubSeq(s, i + 1, Len(s))
<1>1. Len(s) \in Nat /\ DOMAIN s = 1..Len(s) /\ i \in 1..Len(s) /\ \A k \in 1..Len(s) : s[k] \in T
  BY LenProperties
<1>2. a \in Seq(T) /\ DOMAIN a = 1..(i - 1) /\ \A k \in 1..(i - 1) : a[k] = s[k]
  <2>1. 1 \in Int /\ i - 1 \in Int /\ \A k \in 1..(i - 1) : s[k] \in T
    BY <1>1
  <2>2. /\ a \in Seq(T) /\ Len(a) = (IF 1 <= i - 1 THEN i - 1 - 1 + 1 ELSE 0)
        /\ \A k \in 1..(i - 1 - 1 + 1) : a[k] = s[1 + k - 1]
    BY <2>1, SubSeqProperties
  <2>3. Len(a) = i - 1 /\ i - 1 - 1 + 1 = i - 1 /\ \A k \in 1..(i - 1) : 1 + k - 1 = k
    BY <1>1, <2>2
  <2> QED
    BY <2>2, <2>3, LenProperties
<1>3. b \in Seq(T) /\ DOMAIN b = 1..(Len(s) - i) /\ \A k \in 1..(Len(s) - i) : b[k] = s[i + k]
  <2>1. i + 1 \in Int /\ Len(s) \in Int /\ \A k \in (i + 1)..Len(s) : s[k] \in T
    BY <1>1
  <2>2. /\ b \in Seq(T) /\ Len(b) = (IF i + 1 <= Len(s) THEN Len(s) - (i + 1) + 1 ELSE 0)
        /\ \A k \in 1..(Len(s) - (i + 1) + 1) : b[k] = s[(i + 1) + k - 1]
    BY <2>1, SubSeqProperties
  <2>3. /\ Len(b) = Len(s) - i /\ Len(s) - (i + 1) + 1 = Len(s) - i
        /\ \A k \in 1..(Len(s) - i) : (i + 1) + k - 1 = i + k
    BY <1>1, <2>2
  <2> QED
    BY <2>2, <2>3, LenProperties
<1> HIDE DEF a, b
<1>4. a \o b \in Seq(T) /\ ToSet(a \o b) = ToSet(a) \cup ToSet(b)
  BY <1>2, <1>3, JoinSet
<1>5. ASSUME NEW k \in 1..Len(s) PROVE s[k] \in ToSet(a) \cup ToSet(b) \cup {s[i]}
  <2>1. CASE k < i
    <3>1. k \in 1..(i - 1)
      BY <1>1, <2>1
    <3> QED
      BY <1>2, <3>1 DEF ToSet
  <2>2. CASE k > i
    <3>1. k - i \in 1..(Len(s) - i) /\ i + (k - i) = k
      BY <1>1, <2>2
    <3>2. b[k - i] = s[k]
      BY <1>3, <3>1
    <3> QED
      BY <1>3, <3>1, <3>2 DEF ToSet
  <2>3. CASE k = i
    BY <2>3
  <2> QED
    BY <1>1, <2>1, <2>2, <2>3
<1>6. RemoveAt(s, i) = a \o b
  BY DEF RemoveAt, a, b
<1>7. ToSet(s) \subseteq ToSet(a) \cup ToSet(b) \cup {s[i]}
  BY <1>1, <1>5 DEF ToSet
<1> QED
  BY <1>1, <1>4, <1>6, <1>7

(* Flattening has what each of the sequences has.                          *)
Lists(T) == Seq(Seq(T))

LEMMA Flattened ==
    ASSUME NEW T, NEW seqs \in Lists(T)
    PROVE  /\ FlattenSeq(seqs) \in Seq(T)
           /\ \A i \in DOMAIN seqs : ToSet(seqs[i]) \subseteq ToSet(FlattenSeq(seqs))
<1>1. Len(seqs) \in Nat /\ DOMAIN seqs = 1..Len(seqs) /\ \A i \in 1..Len(seqs) : seqs[i] \in Seq(T)
  BY LenProperties DEF Lists
<1>2. CASE Len(seqs) = 0
  <2>1. seqs = <<>> /\ DOMAIN seqs = {}
    BY <1>1, <1>2, EmptySeq DEF Lists
  <2> QED
    BY <1>2, <2>1, EmptySeq DEF FlattenSeq
<1>3. CASE Len(seqs) # 0
  <2> DEFINE N == Len(seqs) - 1
             base == seqs[1]
             step == [n \in 1..N |-> [acc \in Seq(T) |-> acc \o seqs[n + 1]]]
             Join(a, b) == a \o b
             F(g) == [n \in 1..Len(seqs) |-> IF n = 1 THEN seqs[n] ELSE Join(g[n - 1], seqs[n])]
             flat == CHOOSE g : g = F(g)
  <2>1. N \in Nat /\ Len(seqs) = N + 1 /\ \A n \in 1..N : n + 1 \in 1..Len(seqs) /\ seqs[n + 1] \in Seq(T)
    BY <1>1, <1>3
  <2>2. base \in Seq(T)
    BY <1>1, <1>3
  <2>3. step \in [1..N -> [Seq(T) -> Seq(T)]]
    <3>1. ASSUME NEW n \in 1..N, NEW acc \in Seq(T) PROVE acc \o seqs[n + 1] \in Seq(T)
      BY <2>1, JoinSet
    <3> QED
      BY <3>1
  <2>4. \E f : f = F(f)
    <3>1. PICK f \in [0..N -> Seq(T)] : f[0] = base /\ \A n \in 1..N : f[n] = step[n][f[n - 1]]
      <4> DEFINE Q == Seq(T)
      <4>1. N \in Nat /\ base \in Q /\ step \in [1..N -> [Q -> Q]]
        BY <2>1, <2>2, <2>3
      <4> HIDE DEF base, step, N, Q
      <4>2. \E f \in [0..N -> Q] : f[0] = base /\ \A n \in 1..N : f[n] = step[n][f[n - 1]]
        BY <4>1, Iteration
      <4> QED
        BY <4>2 DEF Q
    <3> DEFINE g == [n \in 1..Len(seqs) |-> f[n - 1]]
    <3>2. ASSUME NEW n \in 1..Len(seqs) PROVE g[n] = IF n = 1 THEN seqs[n] ELSE Join(g[n - 1], seqs[n])
      <4>1. CASE n = 1
        BY <3>1, <4>1
      <4>2. CASE n # 1
        <5>1. n - 1 \in 1..N /\ n - 1 - 1 \in 0..N /\ n - 1 \in 1..Len(seqs) /\ n - 1 + 1 = n
          BY <2>1, <4>2
        <5>2. f[n - 1] = step[n - 1][f[n - 1 - 1]] /\ f[n - 1 - 1] \in Seq(T)
          BY <3>1, <5>1
        <5>3. step[n - 1][f[n - 1 - 1]] = Join(f[n - 1 - 1], seqs[n])
          BY <5>1, <5>2
        <5>4. g[n] = f[n - 1] /\ g[n - 1] = f[n - 1 - 1]
          BY <5>1
        <5> QED
          BY <4>2, <5>2, <5>3, <5>4
      <4> QED
        BY <4>1, <4>2
    <3>3. g = [n \in 1..Len(seqs) |-> g[n]]
      OBVIOUS
    <3> HIDE DEF g
    <3>4. g = F(g)
      BY <3>2, <3>3
    <3> QED
      BY <3>4
  <2>5. flat = F(flat)
    BY <2>4
  <2> HIDE DEF flat, step, Join
  <2>6. flat[1] = base /\ \A n \in 1..N : flat[n + 1] = Join(flat[n], seqs[n + 1])
    <3>1. 1 \in 1..Len(seqs) /\ \A n \in 1..N : n + 1 \in 1..Len(seqs) /\ n + 1 # 1 /\ n + 1 - 1 = n
      BY <2>1
    <3>2. \A n \in 1..Len(seqs) : flat[n] = IF n = 1 THEN seqs[n] ELSE Join(flat[n - 1], seqs[n])
      <4>1. ASSUME NEW n \in 1..Len(seqs) PROVE F(flat)[n] = IF n = 1 THEN seqs[n] ELSE Join(flat[n - 1], seqs[n])
        OBVIOUS
      <4> HIDE DEF F
      <4> QED
        BY <2>5, <4>1
    <3>3. ASSUME NEW n \in 1..N PROVE flat[n + 1] = Join(flat[n], seqs[n + 1])
      <4>1. n + 1 \in 1..Len(seqs) /\ n + 1 # 1 /\ n + 1 - 1 = n
        BY <3>1
      <4> QED
        BY <3>2, <4>1
    <3> QED
      BY <3>1, <3>2, <3>3
  <2> DEFINE S == {n \in 0..N : /\ flat[n + 1] \in Seq(T)
                                /\ \A k \in 1..(n + 1) : ToSet(seqs[k]) \subseteq ToSet(flat[n + 1])}
  <2>7. 0 \in S
    <3>1. 0 \in 0..N /\ 0 + 1 = 1 /\ 1..(0 + 1) = {1}
      BY <2>1
    <3> QED
      BY <2>2, <2>6, <3>1
  <2>8. ASSUME NEW n \in 0..N, n < N, n \in S PROVE n + 1 \in S
    <3>1. n + 1 \in 1..N /\ n + 1 \in 0..N
      BY <2>1, <2>8
    <3> DEFINE acc == flat[n + 1]
               next == seqs[n + 1 + 1]
    <3>2. flat[n + 1 + 1] = acc \o next /\ next \in Seq(T) /\ acc \in Seq(T)
      BY <2>1, <2>6, <2>8, <3>1 DEF Join
    <3>3. \A k \in 1..(n + 1) : ToSet(seqs[k]) \subseteq ToSet(acc)
      BY <2>8
    <3> HIDE DEF acc
    <3>4. flat[n + 1 + 1] \in Seq(T) /\ ToSet(flat[n + 1 + 1]) = ToSet(acc) \cup ToSet(next)
      BY <3>2, JoinSet
    <3>5. \A k \in 1..(n + 1 + 1) : k \in 1..(n + 1) \/ k = n + 1 + 1
      BY <2>1
    <3> QED
      BY <3>1, <3>3, <3>4, <3>5
  <2> HIDE DEF S
  <2>9. 0..N \subseteq S
    BY <2>1, <2>7, <2>8, UpTo
  <2>10. N \in S
    BY <2>1, <2>9
  <2>11. FlattenSeq(seqs) = flat[N + 1]
    BY <1>3, <2>1 DEF FlattenSeq, flat, Join
  <2> QED
    BY <1>1, <2>1, <2>10, <2>11 DEF S
<1> QED
  BY <1>2, <1>3

(* Every part of a file is in one of its chunks.                           *)
LEMMA FileChunks ==
    ASSUME NEW d \in Documents
    PROVE  /\ ChunkFile(d) \in Seq(Texts)
           /\ \A p \in Parts(d) : \E c \in ToSet(ChunkFile(d)) : p \subseteq ToSet(c)
<1>1. d.table \in BOOLEAN /\ d.parts \in IF d.table THEN Texts ELSE Seq(Texts)
  BY MemoryAssumption
<1>2. CASE ~d.table
  <2> DEFINE seqs == [i \in DOMAIN d.parts |-> SplitIfLarge(d.parts[i])]
  <2>1. Len(d.parts) \in Nat /\ DOMAIN d.parts = 1..Len(d.parts) /\ \A i \in DOMAIN d.parts : d.parts[i] \in Texts
    BY <1>1, <1>2, LenProperties
  <2>2. ASSUME NEW i \in DOMAIN d.parts
        PROVE  /\ seqs[i] \in Seq(Texts)
               /\ \A k \in DOMAIN d.parts[i] : \E c \in ToSet(seqs[i]) : {d.parts[i][k]} \subseteq ToSet(c)
    BY <2>1, SectionChunks
  <2>3. seqs \in Seq(Seq(Texts)) /\ DOMAIN seqs = DOMAIN d.parts
    <3>1. seqs \in [1..Len(d.parts) -> Seq(Texts)]
      BY <2>1, <2>2
    <3> QED
      BY <2>1, <3>1
  <2>4. ChunkFile(d) = FlattenSeq(seqs)
    BY <1>2 DEF ChunkFile
  <2> HIDE DEF seqs
  <2>5. ChunkFile(d) \in Seq(Texts) /\ \A i \in DOMAIN d.parts : ToSet(seqs[i]) \subseteq ToSet(ChunkFile(d))
    BY <2>3, <2>4, Flattened DEF Lists
  <2>6. ASSUME NEW p \in Parts(d) PROVE \E c \in ToSet(ChunkFile(d)) : p \subseteq ToSet(c)
    <3>1. PICK i \in DOMAIN d.parts : \E k \in DOMAIN d.parts[i] : p = {d.parts[i][k]}
      BY <1>2 DEF Parts, ToSet
    <3> QED
      BY <2>2, <2>5, <3>1
  <2> QED
    BY <2>5, <2>6
<1>3. CASE d.table /\ d.parts = <<>>
  <2>1. Parts(d) = {}
    <3>1. Len(d.parts) = 0
      BY <1>3, EmptySeq
    <3> QED
      BY <1>3, <3>1 DEF Parts
  <2> QED
    BY <1>3, <2>1, EmptySeq DEF ChunkFile
<1>4. CASE d.table /\ d.parts # <<>>
  <2> DEFINE rows == d.parts
             acc == PackedRows(rows)
  <2>1. rows \in Texts /\ rows # <<>>
    BY <1>1, <1>4
  <2>2. /\ acc \in Packing /\ (Len(rows) > 1 => Len(acc.current) > 1)
        /\ \A k \in 2..Len(rows) : Has(acc, {rows[1], rows[k]})
    BY <2>1, RowsPacked
  <2>3. acc.chunks \in Seq(Texts) /\ acc.current \in Texts
    BY <2>1, RowsPacked DEF Packing
  <2>4. /\ Append(acc.chunks, acc.current) \in Seq(Texts)
        /\ ToSet(Append(acc.chunks, acc.current)) = ToSet(acc.chunks) \cup {acc.current}
    BY <2>3, AppendSet
  <2>5. ChunkFile(d) = IF Len(acc.current) > 1 THEN Append(acc.chunks, acc.current) ELSE acc.chunks
    BY <1>4 DEF ChunkFile, ChunkRows
  <2> HIDE DEF acc
  <2>6. ASSUME NEW p \in Parts(d) PROVE \E c \in ToSet(ChunkFile(d)) : p \subseteq ToSet(c)
    <3>1. PICK k \in 2..Len(rows) : p = {rows[1], rows[k]}
      BY <1>4 DEF Parts
    <3>2. Len(rows) \in Nat /\ Len(rows) > 1
      BY <2>1, <3>1, LenProperties DEF Texts
    <3>3. Has(acc, p) /\ ChunkFile(d) = Append(acc.chunks, acc.current)
      BY <2>1, <2>2, <2>5, <3>1, <3>2, RowsPacked DEF acc
    <3> QED
      BY <2>4, <3>3 DEF Has
  <2> QED
    BY <2>3, <2>4, <2>5, <2>6
<1> QED
  BY <1>1, <1>2, <1>3, <1>4

-----------------------------------------------------------------------------
(* The invariant of an ingest.                                             *)

(* Every row there is or was.                                              *)
History == ToSet(entries) \cup deleted

Ingest == [at : {"search", "add", "done"}, file : Documents, namespace : Namespaces, chunks : Seq(Known)]

(* A row of H in the namespace is nearly the same as the text.             *)
Stored(text, ns, H) == \E e \in H : e.namespace = ns /\ Same(e.text, text)

(* Every chunk of the file is stored in H or still to come.                *)
Kept(j, H) ==
    \/ j = Idle
    \/ /\ j \in Ingest
       /\ j.at = "add" => j.chunks # <<>>
       /\ j.at = "done" => j.chunks = <<>>
       /\ \A t \in ToSet(ChunkFile(j.file)) : Stored(t, j.namespace, H) \/ t \in ToSet(j.chunks)

IngestInv ==
    /\ entries \in Seq(Row)
    /\ job = [c \in Clients |-> job[c]]
    /\ \A c \in Clients : Kept(job[c], History)

(* Nothing is lost as the history grows.                                   *)
LEMMA KeptGrows ==
    ASSUME NEW j, NEW H, NEW G, H \subseteq G, Kept(j, H)
    PROVE  Kept(j, G)
  BY DEF Kept, Stored

(* An added row is stored, and the rows before it stay.                    *)
LEMMA RowAdded ==
    ASSUME entries \in Seq(Row), NEW text \in Known, NEW ns \in Namespaces, Insert(text, ns), deleted' = deleted
    PROVE  /\ entries' \in Seq(Row) /\ History \subseteq History'
           /\ Stored(text, ns, History')
<1> DEFINE row == [text |-> text, namespace |-> ns]
<1>1. row \in Row /\ row.namespace = ns /\ row.text = text
  BY DEF Row
<1>2. entries' = Append(entries, row)
  BY DEF Insert
<1> HIDE DEF row
<1>3. entries' \in Seq(Row) /\ ToSet(entries') = ToSet(entries) \cup {row}
  BY <1>1, <1>2, AppendSet
<1>4. Same(row.text, text)
  BY <1>1, DistanceAssumption, MemoryAssumption DEF Same
<1> QED
  BY <1>1, <1>3, <1>4 DEF History, Stored

(* The search of an ingest takes a chunk for a duplicate only when a row   *)
(* of the namespace is nearly the same.                                    *)
LEMMA DuplicateStored ==
    ASSUME entries \in Seq(Row), NEW chunk, NEW ns \in Namespaces,
           \E i \in Search(chunk, {ns}, 1, MaxDistance) : Same(entries[i].text, chunk)
    PROVE  Stored(chunk, ns, History)
<1>1. PICK i \in Search(chunk, {ns}, 1, MaxDistance) : Same(entries[i].text, chunk)
  OBVIOUS
<1>2. i \in RowsOf({ns})
  BY DEF Search, Nearest, Within
<1>3. i \in DOMAIN entries /\ entries[i].namespace = ns
  BY <1>2 DEF RowsOf
<1>4. entries[i] \in History
  BY <1>3 DEF History, ToSet
<1> QED
  BY <1>1, <1>3, <1>4 DEF Stored

(* Initially.                                                              *)
LEMMA IngestInit ==
    MemoryInit => IngestInv
  BY EmptySeq DEF MemoryInit, IngestInv, Kept

(* A step that leaves the ingests alone.                                   *)
LEMMA JobsStay ==
    ASSUME IngestInv, entries' \in Seq(Row), History \subseteq History', job' = job
    PROVE  IngestInv'
<1>1. \A c \in Clients : Kept(job'[c], History')
  BY KeptGrows DEF IngestInv
<1> QED
  BY <1>1 DEF IngestInv

(* A step of the ingest of one agent.                                      *)
LEMMA JobStep ==
    ASSUME IngestInv, entries' \in Seq(Row), History \subseteq History',
           NEW c \in Clients, NEW j, job' = [job EXCEPT ![c] = j], Kept(j, History')
    PROVE  IngestInv'
<1>1. job' = [b \in Clients |-> IF b = c THEN j ELSE job[b]]
  BY DEF IngestInv
<1>2. \A b \in Clients : job'[b] = IF b = c THEN j ELSE job[b]
  BY <1>1
<1>3. \A b \in Clients : Kept(job'[b], History')
  BY <1>2, KeptGrows DEF IngestInv
<1>4. job' = [b \in Clients |-> job'[b]]
  BY <1>1
<1> QED
  BY <1>3, <1>4 DEF IngestInv

(* A row added by hand, and a row deleted.                                 *)
LEMMA AddEntryKeeps ==
    ASSUME IngestInv, AddEntry
    PROVE  IngestInv'
<1>1. PICK text \in Notes, ns \in Namespaces : Insert(text, ns)
  BY DEF AddEntry
<1>2. text \in Known /\ deleted' = deleted /\ job' = job /\ entries \in Seq(Row)
  BY KnownTexts DEF AddEntry, IngestInv
<1>3. entries' \in Seq(Row) /\ History \subseteq History'
  BY <1>1, <1>2, RowAdded
<1> QED
  BY <1>2, <1>3, JobsStay

LEMMA DeleteEntryKeeps ==
    ASSUME IngestInv, DeleteEntry
    PROVE  IngestInv'
<1>1. PICK i \in DOMAIN entries : entries' = RemoveAt(entries, i) /\ deleted' = deleted \cup {entries[i]}
  BY DEF DeleteEntry
<1>2. job' = job /\ entries \in Seq(Row)
  BY DEF DeleteEntry, IngestInv
<1>3. entries' \in Seq(Row) /\ ToSet(entries) \subseteq ToSet(entries') \cup {entries[i]}
  BY <1>1, <1>2, RemoveSet
<1>4. History \subseteq History'
  BY <1>1, <1>3 DEF History
<1> QED
  BY <1>2, <1>3, <1>4, JobsStay

(* The start of an ingest: every chunk is to come.                         *)
LEMMA IngestStartKeeps ==
    ASSUME IngestInv, NEW c \in Clients, IngestStart(c)
    PROVE  IngestInv'
<1>1. PICK d \in Documents, ns \in Namespaces :
        job' = [job EXCEPT ![c] = [at |-> "search", file |-> d, namespace |-> ns, chunks |-> ChunkFile(d)]]
  BY DEF IngestStart
<1> DEFINE j == [at |-> "search", file |-> d, namespace |-> ns, chunks |-> ChunkFile(d)]
<1>2. ChunkFile(d) \in Seq(Known)
  <2>1. ChunkFile(d) \in Seq(Texts) /\ ToSet(ChunkFile(d)) \subseteq Known
    BY FileChunks, KnownTexts
  <2> QED
    BY <2>1, LenProperties DEF ToSet
<1>3. j \in Ingest /\ j.at = "search" /\ j.file = d /\ j.namespace = ns /\ j.chunks = ChunkFile(d)
  BY <1>2 DEF Ingest
<1>4. entries' \in Seq(Row) /\ History \subseteq History'
  BY DEF IngestStart, IngestInv, History
<1> HIDE DEF j
<1>5. Kept(j, History')
  BY <1>3 DEF Kept
<1> QED
  BY <1>1, <1>4, <1>5, JobStep DEF j

(* An ingest at work, and its file.                                        *)
LEMMA AtWork ==
    ASSUME IngestInv, NEW c \in Clients, job[c].at \in {"search", "add", "done"}
    PROVE  job[c] \in Ingest /\ job[c].chunks \in Seq(Known) /\ job[c].namespace \in Namespaces
<1>1. job[c] # Idle
  BY DEF Idle
<1>2. job[c] \in Ingest
  BY <1>1 DEF IngestInv, Kept
<1> QED
  BY <1>2 DEF Ingest

(* The search: when no chunk is left the ingest is done, a duplicate is    *)
(* left out, and another chunk goes on to be added.                        *)
LEMMA IngestSearchKeeps ==
    ASSUME IngestInv, NEW c \in Clients, IngestSearch(c)
    PROVE  IngestInv'
<1> DEFINE o == job[c]
           duplicate == \E i \in Search(o.chunks[1], {o.namespace}, 1, MaxDistance) : Same(entries[i].text, o.chunks[1])
           j == IF o.chunks = <<>> THEN [o EXCEPT !.at = "done"]
                ELSE IF duplicate THEN [o EXCEPT !.chunks = Tail(o.chunks)] ELSE [o EXCEPT !.at = "add"]
<1>1. o.at = "search" /\ o \in Ingest /\ o.chunks \in Seq(Known) /\ o.namespace \in Namespaces
  BY AtWork DEF IngestSearch
<1>2. job' = [job EXCEPT ![c] = j]
  BY DEF IngestSearch
<1>3. entries \in Seq(Row) /\ entries' = entries /\ History' = History
  BY DEF IngestSearch, IngestInv, History
<1>4. \A t \in ToSet(ChunkFile(o.file)) : Stored(t, o.namespace, History) \/ t \in ToSet(o.chunks)
  <2>1. o # Idle
    BY <1>1 DEF Idle
  <2> QED
    BY <2>1 DEF IngestInv, Kept
<1>5. CASE o.chunks = <<>>
  <2>1. /\ j = [o EXCEPT !.at = "done"] /\ j \in Ingest /\ j.at = "done"
        /\ j.chunks = o.chunks /\ j.namespace = o.namespace /\ j.file = o.file
    BY <1>1, <1>5 DEF Ingest
  <2> HIDE DEF j, o
  <2>2. Kept(j, History')
    BY <1>3, <1>4, <1>5, <2>1 DEF Kept, Stored
  <2> QED
    BY <1>2, <1>3, <2>2, JobStep
<1>6. CASE o.chunks # <<>> /\ duplicate
  <2>1. Tail(o.chunks) \in Seq(Known) /\ o.chunks[1] \in Known /\ ToSet(o.chunks) = {o.chunks[1]} \cup ToSet(Tail(o.chunks))
    BY <1>1, <1>6, TailSet
  <2>2. Stored(o.chunks[1], o.namespace, History)
    BY <1>1, <1>3, <1>6, DuplicateStored
  <2>3. /\ j = [o EXCEPT !.chunks = Tail(o.chunks)] /\ j \in Ingest /\ j.at = "search"
        /\ j.chunks = Tail(o.chunks) /\ j.namespace = o.namespace /\ j.file = o.file
    BY <1>1, <1>6, <2>1 DEF Ingest
  <2> HIDE DEF j, o
  <2>4. Kept(j, History')
    BY <1>3, <1>4, <2>1, <2>2, <2>3 DEF Kept, Stored
  <2> QED
    BY <1>2, <1>3, <2>4, JobStep
<1>7. CASE o.chunks # <<>> /\ ~duplicate
  <2>1. /\ j = [o EXCEPT !.at = "add"] /\ j \in Ingest /\ j.at = "add"
        /\ j.chunks = o.chunks /\ j.namespace = o.namespace /\ j.file = o.file
    BY <1>1, <1>7 DEF Ingest
  <2> HIDE DEF j, o
  <2>2. Kept(j, History')
    BY <1>3, <1>4, <1>7, <2>1 DEF Kept, Stored
  <2> QED
    BY <1>2, <1>3, <2>2, JobStep
<1> QED
  BY <1>5, <1>6, <1>7

(* The add: the chunk is now a row.                                        *)
LEMMA IngestAddKeeps ==
    ASSUME IngestInv, NEW c \in Clients, IngestAdd(c)
    PROVE  IngestInv'
<1> DEFINE o == job[c]
           j == [o EXCEPT !.at = "search", !.chunks = Tail(@)]
<1>1. o.at = "add" /\ o \in Ingest /\ o.chunks \in Seq(Known) /\ o.namespace \in Namespaces
  BY AtWork DEF IngestAdd
<1>2. o.chunks # <<>> /\ \A t \in ToSet(ChunkFile(o.file)) :
         Stored(t, o.namespace, History) \/ t \in ToSet(o.chunks)
  <2>1. o # Idle
    BY <1>1 DEF Idle
  <2> QED
    BY <1>1, <2>1 DEF IngestInv, Kept
<1>3. Tail(o.chunks) \in Seq(Known) /\ o.chunks[1] \in Known /\ ToSet(o.chunks) = {o.chunks[1]} \cup ToSet(Tail(o.chunks))
  BY <1>1, <1>2, TailSet
<1>4. Insert(o.chunks[1], o.namespace) /\ deleted' = deleted /\ entries \in Seq(Row)
  BY DEF IngestAdd, IngestInv
<1>5. /\ entries' \in Seq(Row) /\ History \subseteq History'
      /\ Stored(o.chunks[1], o.namespace, History')
  BY <1>1, <1>3, <1>4, RowAdded
<1>6. /\ j \in Ingest /\ j.at = "search" /\ j.chunks = Tail(o.chunks)
      /\ j.namespace = o.namespace /\ j.file = o.file
  BY <1>1, <1>3 DEF Ingest
<1>7. job' = [job EXCEPT ![c] = j]
  BY DEF IngestAdd, IngestInv
<1> HIDE DEF j, o
<1>8. Kept(j, History')
  BY <1>2, <1>3, <1>5, <1>6 DEF Kept, Stored
<1> QED
  BY <1>5, <1>7, <1>8, JobStep

(* The invariant is inductive.                                             *)
LEMMA IngestStep ==
    IngestInv /\ [MemoryNext]_memoryVars => IngestInv'
<1> SUFFICES ASSUME IngestInv, [MemoryNext]_memoryVars PROVE IngestInv'
  OBVIOUS
<1>1. CASE InitDb \/ InitDbKilled \/ UNCHANGED memoryVars
  <2>1. entries' = entries /\ deleted' = deleted /\ job' = job
    BY <1>1 DEF InitDb, InitDbKilled, memoryVars
  <2>2. entries' \in Seq(Row) /\ History \subseteq History'
    BY <2>1 DEF IngestInv, History
  <2> QED
    BY <2>1, <2>2, JobsStay
<1>2. CASE AddEntry
  BY <1>2, AddEntryKeeps
<1>3. CASE DeleteEntry
  BY <1>3, DeleteEntryKeeps
<1>4. CASE \E c \in Clients : IngestStart(c)
  BY <1>4, IngestStartKeeps
<1>5. CASE \E c \in Clients : IngestSearch(c)
  BY <1>5, IngestSearchKeeps
<1>6. CASE \E c \in Clients : IngestAdd(c)
  BY <1>6, IngestAddKeeps
<1>7. ASSUME NEW c \in Clients, IngestKilled(c) PROVE IngestInv'
  <2>1. /\ entries' = entries /\ deleted' = deleted /\ job' = [job EXCEPT ![c] = Idle]
        /\ entries' \in Seq(Row) /\ History \subseteq History'
    BY <1>7 DEF IngestKilled, IngestInv, History
  <2>2. Kept(Idle, History')
    BY DEF Kept
  <2> QED
    BY <2>1, <2>2, JobStep
<1> QED
  BY <1>1, <1>2, <1>3, <1>4, <1>5, <1>6, <1>7 DEF MemoryNext

(* When an ingest is done, every part of the file is in one of its chunks, *)
(* and every chunk is nearly the same as an entry of the namespace or one  *)
(* that was deleted: a chunk that is not added is taken for a duplicate of *)
(* such an entry, and rows leave only by takt memory delete (ingest_file). *)
THEOREM IngestStores == MemorySpec => []IngestComplete
<1>1. IngestInv => IngestComplete
  <2> SUFFICES ASSUME IngestInv, NEW c \in Clients, job[c].at = "done"
               PROVE  LET chunks == ToSet(ChunkFile(job[c].file))
                      IN  /\ \A p \in Parts(job[c].file) : \E t \in chunks : p \subseteq ToSet(t)
                          /\ \A t \in chunks : \E e \in ToSet(entries) \cup deleted :
                                 e.namespace = job[c].namespace /\ Same(e.text, t)
    BY DEF IngestComplete
  <2>1. job[c] # Idle
    BY DEF Idle
  <2>2. /\ job[c].chunks = <<>> /\ job[c] \in Ingest
        /\ \A t \in ToSet(ChunkFile(job[c].file)) :
              Stored(t, job[c].namespace, History) \/ t \in ToSet(job[c].chunks)
    BY <2>1 DEF IngestInv, Kept
  <2>3. ToSet(<<>>) = {} /\ job[c].file \in Documents
    BY <2>2, ShortSet DEF Ingest
  <2> QED
    BY <2>2, <2>3, FileChunks DEF History, Stored
<1> QED
  BY <1>1, IngestInit, IngestStep, PTL DEF MemorySpec

(* A search in a namespace or in all gives the nearest entries there, and  *)
(* fewer than there are within the threshold only when the limit is        *)
(* reached or when entries of other namespaces, nearer than all that are   *)
(* missed, use up what is fetched (search).                                *)
THEOREM SearchesFind == MemorySpec => []SearchFinds
<1>1. IngestInv => SearchFinds
  BY SearchNearest DEF IngestInv
<1> QED
  BY <1>1, IngestInit, IngestStep, PTL DEF MemorySpec

-----------------------------------------------------------------------------
(* A file is kind by kind; a command at work says which file it has found, *)
(* and whether it is alone.                                                *)
Running(c) ==
    /\ c = [at |-> c.at, path |-> c.path, fm |-> c.fm, status |-> c.status, alone |-> c.alone]
    /\ c.at \in {"create", "write", "field", "move", "rewrite", "remove", "set"}
    /\ c.path \in Paths /\ c.alone \in BOOLEAN
    /\ c.at \in {"create", "field", "remove"} \/ c.status \in Statuses
Shape ==
    /\ specs = [p \in Paths |-> specs[p]]
    /\ command = [a \in Agents |-> command[a]]
    /\ \A a \in Agents : command[a] = Resting \/ Running(command[a])

(* What a set status that has run alone so far finds at its next step.     *)
Given(c) == Spec(c.fm.text, "parsed", c.fm.id, c.status)
Moved(c) == PathOf(c.status, c.path) # c.path
Found(c) ==
    /\ c.at = "write" => c.fm.kind = "parsed" /\ specs[c.path] = c.fm
    /\ c.at = "move" => Moved(c) /\ specs[c.path] = Given(c)
    /\ c.at \in {"rewrite", "set"} =>
           specs[PathOf(c.status, c.path)] = Given(c) /\ (Moved(c) => specs[c.path] = NoFile)

Undisturbed(a) ==
    command[a].at # "rest" /\ command[a].alone = TRUE =>
        /\ Found(command[a])
        /\ \A b \in Agents \ {a} : Quiet(b)

SInv == Shape /\ \A a \in Agents : Undisturbed(a)

LEMMA Initially == SpecsInit => SInv
  BY DEF SpecsInit, SInv, Shape, Undisturbed, Resting

LEMMA AtRest == Resting.at = "rest"
  BY DEF Resting

LEMMA InPaths == ASSUME NEW p \in Paths, NEW s \in Statuses PROVE PathOf(s, p) \in Paths
  BY DEF Paths, PathOf, Folders

LEMMA Kinds ==
    ASSUME NEW text, NEW kind, NEW id, NEW status
    PROVE  /\ Spec(text, kind, id, status).text = text /\ Spec(text, kind, id, status).kind = kind
           /\ Spec(text, kind, id, status).id = id /\ Spec(text, kind, id, status).status = status
  BY DEF Spec

-----------------------------------------------------------------------------
(* A command begins: the others are no longer alone, and it sees what is   *)
(* stored.                                                                 *)
LEMMA Begins ==
    ASSUME SInv, NEW a \in Agents, NEW c, Running(c), Begin(a, c), specs' = specs, c.at # "move",
           c.at # "rewrite", c.at # "set", c.at = "write" => c.fm.kind = "parsed" /\ specs[c.path] = c.fm
    PROVE  SInv'
<1> DEFINE alone == \A d \in Agents : Quiet(d)
<1>1. PICK r : r = [c EXCEPT !.alone = alone]
  OBVIOUS
<1>2. command' = [b \in Agents |-> IF b = a THEN r
                                   ELSE IF Quiet(b) THEN Resting ELSE [command[b] EXCEPT !.alone = FALSE]]
  BY <1>1 DEF Begin
<1>3. /\ Running(r) /\ r.at = c.at /\ r.path = c.path /\ r.fm = c.fm /\ r.status = c.status
      /\ r.alone = TRUE => alone
  BY <1>1 DEF Running
<1>4. ASSUME NEW b \in Agents \ {a}
      PROVE  /\ command'[b] = Resting \/ (Running(command'[b]) /\ command'[b].alone = FALSE)
             /\ Quiet(b) => command'[b] = Resting
  <2>1. CASE Quiet(b)
    BY <1>2, <2>1
  <2>2. CASE ~Quiet(b)
    <3>1. PICK d : d = command[b]
      OBVIOUS
    <3>2. Running(d)
      BY <2>2, <3>1 DEF SInv, Shape, Quiet, Resting
    <3>3. command'[b] = [d EXCEPT !.alone = FALSE]
      BY <1>2, <2>2, <3>1
    <3>4. command'[b] = [at |-> d.at, path |-> d.path, fm |-> d.fm, status |-> d.status, alone |-> FALSE]
      BY <3>2, <3>3 DEF Running
    <3> QED
      BY <2>2, <3>2, <3>4 DEF Running
  <2> QED
    BY <2>1, <2>2
<1>5. Shape'
  BY <1>2, <1>3, <1>4 DEF SInv, Shape
<1>6. ASSUME NEW b \in Agents PROVE Undisturbed(b)'
  <2>1. CASE b = a
    <3>1. command'[a] = r
      BY <1>2
    <3>2. Found(command[a])'
      BY <1>3, <3>1 DEF Found
    <3>3. alone => \A d \in Agents \ {a} : Quiet(d)'
      BY <1>4, AtRest DEF Quiet
    <3> HIDE DEF alone
    <3> QED
      BY <1>3, <2>1, <3>1, <3>2, <3>3 DEF Undisturbed
  <2>2. CASE b # a
    BY <1>4, <2>2, AtRest DEF Undisturbed
  <2> QED
    BY <2>1, <2>2
<1> QED
  BY <1>5, <1>6 DEF SInv

LEMMA OfCommand ==
    ASSUME NEW at \in {"create", "write", "field", "remove"}, NEW p \in Paths, NEW fm,
           NEW s, at = "write" => s \in Statuses
    PROVE  /\ Running(Command(at, p, fm, s)) /\ Command(at, p, fm, s).at = at
           /\ Command(at, p, fm, s).path = p /\ Command(at, p, fm, s).fm = fm
  BY DEF Running, Command

LEMMA Starts ==
    ASSUME SInv, NEW a \in Agents, CreateStart(a) \/ SetStart(a) \/ MigrateStart(a) \/ RemoveStart(a)
    PROVE  SInv'
<1>1. ASSUME NEW at \in {"create", "write", "field", "remove"}, NEW p \in Paths, NEW fm,
             NEW s, at = "write" => s \in Statuses, Begin(a, Command(at, p, fm, s)), specs' = specs,
             at = "write" => fm.kind = "parsed" /\ specs[p] = fm
      PROVE  SInv'
  <2>1. PICK c : c = Command(at, p, fm, s)
    OBVIOUS
  <2>2. Running(c) /\ c.at = at /\ c.path = p /\ c.fm = fm
    BY <1>1, <2>1, OfCommand
  <2> QED
    BY <1>1, <2>1, <2>2, Begins
<1>3. CASE CreateStart(a)
  BY <1>1, <1>3 DEF CreateStart, InFolder
<1>4. CASE SetStart(a)
  <2>1. PICK p \in Paths :
            /\ specs[p].kind = "parsed"
            /\ \/ \E s \in Statuses : Begin(a, Command("write", p, specs[p], s))
               \/ Begin(a, Command("field", p, specs[p], specs[p].status))
    BY <1>4 DEF SetStart
  <2> QED
    BY <1>1, <1>4, <2>1 DEF SetStart
<1>5. CASE MigrateStart(a)
  <2>1. PICK p \in Paths : Begin(a, Command("field", p, Spec(0, "parsed", made', StatusAt(p)), StatusAt(p)))
    BY <1>5 DEF MigrateStart
  <2> QED
    BY <1>1, <1>5, <2>1 DEF MigrateStart
<1>6. CASE RemoveStart(a)
  BY <1>1, <1>6 DEF RemoveStart
<1> QED
  BY <1>3, <1>4, <1>5, <1>6

-----------------------------------------------------------------------------
(* A command goes on, and nobody else is alone; or it returns.             *)
LEMMA Goes ==
    ASSUME SInv, NEW a \in Agents, ~Quiet(a), NEW r, command' = [command EXCEPT ![a] = r],
           specs' = [p \in Paths |-> specs'[p]],
           \/ r = Resting
           \/ Running(r) /\ r.alone = command[a].alone /\ (r.alone = TRUE => Found(r)')
    PROVE  SInv'
<1>1. command'[a] = r /\ \A b \in Agents \ {a} : command'[b] = command[b]
  BY DEF SInv, Shape
<1>2. Shape'
  <2>1. command' = [b \in Agents |-> command'[b]]
    BY DEF SInv, Shape
  <2> QED
    BY <1>1, <2>1 DEF SInv, Shape
<1>3. command[a].at # "rest"
  BY DEF Quiet
<1>4. ASSUME NEW b \in Agents PROVE Undisturbed(b)'
  <2>1. CASE b = a
    <3> SUFFICES ASSUME r.at # "rest", r.alone = TRUE
                 PROVE  Found(r)' /\ \A d \in Agents \ {a} : Quiet(d)'
      BY <1>1, <2>1 DEF Undisturbed, Found
    <3>1. Found(r)' /\ command[a].alone = TRUE
      BY AtRest
    <3>2. \A d \in Agents \ {a} : Quiet(d)
      BY <1>3, <3>1 DEF SInv, Undisturbed
    <3> QED
      BY <1>1, <3>1, <3>2 DEF Quiet
  <2>2. CASE b # a
    <3>1. command'[b].at # "rest" /\ command'[b].alone = TRUE => FALSE
      BY <1>1, <2>2 DEF SInv, Undisturbed
    <3> QED
      BY <3>1 DEF Undisturbed
  <2> QED
    BY <2>1, <2>2
<1> QED
  BY <1>2, <1>4 DEF SInv

LEMMA Returns ==
    ASSUME SInv, NEW a \in Agents, ~Quiet(a), Return(a), specs' = [p \in Paths |-> specs'[p]]
    PROVE  SInv'
  BY Goes DEF Return

LEMMA Continues ==
    ASSUME SInv, NEW a \in Agents, ~Quiet(a), NEW at \in {"move", "rewrite", "set"}, Continue(a, at),
           command[a].at \in {"write", "move", "rewrite"},
           specs' = [p \in Paths |-> specs'[p]],
           command[a].alone = TRUE =>
               /\ at = "move" => Moved(command[a]) /\ specs'[command[a].path] = Given(command[a])
               /\ at \in {"rewrite", "set"} =>
                      /\ specs'[PathOf(command[a].status, command[a].path)] = Given(command[a])
                      /\ Moved(command[a]) => specs'[command[a].path] = NoFile
    PROVE  SInv'
<1> PICK c : c = command[a]
  OBVIOUS
<1>1. Running(c)
  BY AtRest DEF SInv, Shape
<1>2. PICK r : r = [c EXCEPT !.at = at]
  OBVIOUS
<1>3. r = [at |-> at, path |-> c.path, fm |-> c.fm, status |-> c.status, alone |-> c.alone]
  BY <1>1, <1>2 DEF Running
<1>4. Running(r) /\ r.alone = c.alone
  BY <1>1, <1>3 DEF Running
<1>5. c.alone = TRUE => Found(r)'
  BY <1>3 DEF Found, Moved, Given
<1>6. command' = [command EXCEPT ![a] = r]
  BY <1>2 DEF Continue
<1> QED
  BY <1>4, <1>5, <1>6, Goes

(* Whatever a step writes, it writes at a path.                            *)
LEMMA PlainSteps ==
    ASSUME SInv, NEW a \in Agents, CreateWrite(a) \/ SetField(a) \/ RemoveFile(a) \/ Killed(a)
    PROVE  SInv'
<1>1. specs' = [p \in Paths |-> specs'[p]]
  BY DEF CreateWrite, SetField, RemoveFile, Killed, WithFrontmatter, SInv, Shape
<1>2. ~Quiet(a) /\ Return(a)
  BY DEF CreateWrite, SetField, RemoveFile, Killed, Quiet
<1> QED
  BY <1>1, <1>2, Returns

LEMMA SetSteps ==
    ASSUME SInv, NEW a \in Agents, SetWrite(a) \/ SetMove(a) \/ SetRewrite(a)
    PROVE  SInv'
<1> PICK c : c = command[a]
  OBVIOUS
<1>1. ~Quiet(a) /\ Running(c) /\ c.at \in {"write", "move", "rewrite"}
  BY AtRest DEF SetWrite, SetMove, SetRewrite, Quiet, SInv, Shape
<1>2. c.path \in Paths /\ c.status \in Statuses /\ PathOf(c.status, c.path) \in Paths
  BY <1>1, InPaths DEF Running
<1>3. specs = [p \in Paths |-> specs[p]] /\ (c.alone = TRUE => Found(c))
  BY <1>1 DEF SInv, Shape, Undisturbed
<1>4. CASE Return(a) /\ specs' = specs
  BY <1>1, <1>3, <1>4, Returns
<1>5. CASE SetWrite(a) /\ ~(Return(a) /\ specs' = specs)
  <2>1. PICK w, at : /\ w = Spec(specs[c.path].text, "parsed", c.fm.id, c.status)
                     /\ at = IF Moved(c) THEN "move" ELSE "set"
    OBVIOUS
  <2>2. specs' = [specs EXCEPT ![c.path] = w] /\ Continue(a, at) /\ c.at = "write"
    BY <1>3, <1>5, <2>1 DEF SetWrite, WithFrontmatter, Moved
  <2>3. specs'[c.path] = w /\ specs' = [p \in Paths |-> specs'[p]]
    BY <1>2, <1>3, <2>2
  <2>4. c.alone = TRUE => w = Given(c)
    BY <1>3, <2>1, <2>2 DEF Found, Given
  <2>5. at = "set" => PathOf(c.status, c.path) = c.path /\ ~Moved(c)
    BY <2>1 DEF Moved
  <2>6. at \in {"move", "set"} /\ (at = "move" => Moved(c))
    BY <2>1
  <2> QED
    BY <1>1, <2>2, <2>3, <2>4, <2>5, <2>6, Continues
<1>6. CASE SetMove(a) /\ ~(Return(a) /\ specs' = specs)
  <2>1. PICK q : q = PathOf(c.status, c.path)
    OBVIOUS
  <2>2. /\ specs' = [specs EXCEPT ![c.path] = NoFile, ![q] = specs[c.path]]
        /\ Continue(a, "rewrite") /\ c.at = "move"
    BY <1>6, <2>1 DEF SetMove
  <2>3. /\ specs' = [p \in Paths |-> specs'[p]] /\ specs'[q] = specs[c.path]
        /\ q # c.path => specs'[c.path] = NoFile
    BY <1>2, <1>3, <2>1, <2>2
  <2>4. c.alone = TRUE => specs[c.path] = Given(c) /\ q # c.path
    BY <1>3, <2>1, <2>2 DEF Found, Moved
  <2> QED
    BY <1>1, <2>1, <2>2, <2>3, <2>4, Continues
<1>7. CASE SetRewrite(a) /\ ~(Return(a) /\ specs' = specs)
  <2>1. PICK q, fm : /\ q = PathOf(c.status, c.path)
                     /\ fm = IF specs[q].kind = "parsed" THEN specs[q] ELSE c.fm
    OBVIOUS
  <2>2. PICK w : w = Spec(specs[q].text, "parsed", fm.id, c.status)
    OBVIOUS
  <2>3. specs' = [specs EXCEPT ![q] = w] /\ Continue(a, "set") /\ c.at = "rewrite"
    BY <1>3, <1>7, <2>1, <2>2 DEF SetRewrite, WithFrontmatter
  <2>4. /\ specs' = [p \in Paths |-> specs'[p]] /\ specs'[q] = w
        /\ q # c.path => specs'[c.path] = specs[c.path]
    BY <1>2, <1>3, <2>1, <2>3
  <2>5. c.alone = TRUE => specs[q] = Given(c) /\ (Moved(c) => specs[c.path] = NoFile)
    BY <1>3, <2>1, <2>3 DEF Found
  <2>6. c.alone = TRUE => w = Given(c)
    BY <2>1, <2>2, <2>5, Kinds DEF Given
  <2>7. q # c.path <=> Moved(c)
    BY <2>1 DEF Moved
  <2> QED
    BY <1>1, <2>1, <2>3, <2>4, <2>5, <2>6, <2>7, Continues
<1> QED
  BY <1>4, <1>5, <1>6, <1>7

LEMMA SpecsSteps == SInv /\ [SpecsNext]_specsVars => SInv'
<1> SUFFICES ASSUME SInv, [SpecsNext]_specsVars PROVE SInv'
  OBVIOUS
<1>1. CASE UNCHANGED specsVars
  BY <1>1 DEF specsVars, SInv, Shape, Undisturbed, Found, Quiet
<1>2. CASE SpecsNext
  BY <1>2, Starts, PlainSteps, SetSteps DEF SpecsNext
<1> QED
  BY <1>1, <1>2

(* A set status beside which nothing ran leaves the spec in the folder of  *)
(* the status in its frontmatter, with its text and id and at no second    *)
(* path, whatever killed or concurrent commands had left behind (spec.py   *)
(* cmd_set).                                                               *)
THEOREM SetRepairs == SpecsSpec => []SetStatusRepairs
<1>1. SInv => SetStatusRepairs
  <2> SUFFICES ASSUME SInv, NEW a \in Agents, command[a].at = "set", command[a].alone
               PROVE  LET c == command[a]
                          p == PathOf(c.status, c.path)
                      IN  /\ specs[p].status = c.status /\ specs[p].id = c.fm.id
                          /\ specs[p].text = c.fm.text
                          /\ p # c.path => specs[c.path] = NoFile
    BY DEF SetStatusRepairs
  <2>1. Running(command[a])
    BY AtRest DEF SInv, Shape
  <2>2. Found(command[a])
    BY <2>1 DEF SInv, Undisturbed, Running
  <2> QED
    BY <2>2, Kinds DEF Found, Given, Moved
<1> QED
  BY <1>1, Initially, SpecsSteps, PTL DEF SpecsSpec
=============================================================================
