--------------------- MODULE ConnectionDiagnosticsProofs ---------------------
(***************************************************************************)
(* Proofs about the two halves of the diagnostics tailer: first about      *)
(* ConnectionDiagnostics, for all users, networks and limits, then about   *)
(* AccessLogTailer, for all lines, sizes and faults.                       *)
(***************************************************************************)
EXTENDS ConnectionDiagnostics, AccessLogTailer, FiniteSetTheorems, WellFoundedInduction, TLAPS

\* The sum of SourcesAccounted.
SumOf(f, S) == FoldFunctionOnSet(+, 0, f, S)

-----------------------------------------------------------------------------
(* Sums over sets.  What is said of every set is said of the least one for *)
(* which it could fail.  As in TrafficCollectorProofs.                     *)

\* The element that a sum takes next, and the sums of some sets: g[s] is that of s.
Some(s) == CHOOSE x \in s : TRUE
SumsUp(f, T, g) == g = [s \in T |-> IF s = {} THEN 0 ELSE f[Some(s)] + g[s \ {Some(s)}]]

\* What SumOf is defined to be.
LEMMA SumUnfolds ==
  ASSUME NEW f, NEW S
  PROVE  SumOf(f, S) = (CHOOSE g : SumsUp(f, SUBSET S, g))[S]
BY Zenon DEF SumOf, FoldFunctionOnSet, MapThenFoldSet, SumsUp, Some

\* A set of numbers that is not empty has a least one.
LEMMA LeastOf ==
  ASSUME NEW S, S \subseteq Nat, S # {}
  PROVE  \E n \in S : \A m \in S : n <= m
<1> DEFINE R == {ss \in Nat \X Nat : ss[1] < ss[2]}
<1>1. IsWellFoundedOn(R, Nat)
  BY NatLessThanWellFounded DEF OpToRel
<1>2. PICK n \in S : \A m \in S : ~(<<m, n>> \in R)
  BY <1>1, WFMin
<1>3. ASSUME NEW m \in S PROVE n <= m
  <2>1. n \in Nat /\ m \in Nat /\ ~(m < n)
    BY <1>2
  <2> QED BY <2>1
<1> QED BY <1>3

\* The subsets of a finite set, and what is left of one when an element is taken.
LEMMA Subsets ==
  ASSUME NEW S, IsFiniteSet(S), NEW s \in SUBSET S
  PROVE  /\ IsFiniteSet(s) /\ Cardinality(s) \in Nat
         /\ Cardinality(S) \in Nat /\ Cardinality(s) <= Cardinality(S)
         /\ Cardinality(s) = 0 <=> s = {}
         /\ s # {} => /\ Some(s) \in s /\ s \ {Some(s)} \in SUBSET S
                      /\ Cardinality(s \ {Some(s)}) = Cardinality(s) - 1
<1>1. IsFiniteSet(s) /\ Cardinality(s) <= Cardinality(S)
  BY FS_Subset
<1>2. Cardinality(s) \in Nat /\ Cardinality(S) \in Nat
  BY <1>1, FS_CardinalityType
<1>3. Cardinality(s) = 0 <=> s = {}
  BY <1>1, FS_EmptySet
<1>4. ASSUME s # {} PROVE Some(s) \in s
  BY <1>4 DEF Some
<1>5. ASSUME s # {}
      PROVE  s \ {Some(s)} \in SUBSET S /\ Cardinality(s \ {Some(s)}) = Cardinality(s) - 1
  <2>1. Some(s) \in s
    BY <1>4, <1>5
  <2> QED BY <1>1, <2>1, FS_RemoveElement
<1> QED BY <1>1, <1>2, <1>3, <1>4, <1>5

\* There are such sums: those of small sets give those of sets with one more.
LEMMA SumsExist ==
  ASSUME NEW f, NEW S, IsFiniteSet(S)
  PROVE  \E g : SumsUp(f, SUBSET S, g)
<1> DEFINE UpTo(n) == {s \in SUBSET S : Cardinality(s) <= n}
           Bad == {n \in Nat : ~\E g : SumsUp(f, UpTo(n), g)}
<1>1. 0 \notin Bad
  <2> DEFINE g == [s \in UpTo(0) |-> 0]
  <2>1. ASSUME NEW s \in UpTo(0) PROVE s = {}
    <3>1. s \in SUBSET S /\ Cardinality(s) <= 0
      OBVIOUS
    <3>2. Cardinality(s) \in Nat /\ (Cardinality(s) = 0 <=> s = {})
      BY <3>1, Subsets
    <3> QED BY <3>1, <3>2
  <2>2. g = [s \in UpTo(0) |-> IF s = {} THEN 0 ELSE f[Some(s)] + g[s \ {Some(s)}]]
    BY <2>1
  <2>3. SumsUp(f, UpTo(0), g)
    BY <2>2 DEF SumsUp
  <2> QED BY <2>3
<1>2. ASSUME NEW n \in Nat, n \notin Bad PROVE n + 1 \notin Bad
  <2>1. PICK h : SumsUp(f, UpTo(n), h)
    BY <1>2
  <2> DEFINE g == [s \in UpTo(n + 1) |-> IF s = {} THEN 0 ELSE f[Some(s)] + h[s \ {Some(s)}]]
  <2>2. ASSUME NEW s \in UpTo(n + 1), s # {}
        PROVE  g[s \ {Some(s)}] = h[s \ {Some(s)}]
    <3> DEFINE t == s \ {Some(s)}
    <3>1. Cardinality(s) \in Nat /\ t \in SUBSET S /\ Cardinality(t) = Cardinality(s) - 1
      BY <2>2, Subsets
    <3>2. t \in UpTo(n) /\ t \in UpTo(n + 1)
      BY <3>1
    <3> HIDE DEF t, UpTo
    <3>3. h[t] = IF t = {} THEN 0 ELSE f[Some(t)] + h[t \ {Some(t)}]
      BY <2>1, <3>2 DEF SumsUp
    <3>4. g[t] = IF t = {} THEN 0 ELSE f[Some(t)] + h[t \ {Some(t)}]
      BY <3>2
    <3> QED BY <3>3, <3>4 DEF t
  <2>3. g = [s \in UpTo(n + 1) |-> IF s = {} THEN 0 ELSE f[Some(s)] + g[s \ {Some(s)}]]
    <3> HIDE DEF UpTo
    <3>1. \A s \in UpTo(n + 1) : g[s] = IF s = {} THEN 0 ELSE f[Some(s)] + g[s \ {Some(s)}]
      BY <2>2
    <3>2. g = [s \in UpTo(n + 1) |-> g[s]]
      OBVIOUS
    <3> HIDE DEF g
    <3> QED BY <3>1, <3>2
  <2>4. SumsUp(f, UpTo(n + 1), g)
    <3> HIDE DEF UpTo, g
    <3> QED BY <2>3 DEF SumsUp
  <2> HIDE DEF g, UpTo
  <2> QED BY <2>4
<1>3. Bad = {}
  <2> SUFFICES ASSUME Bad # {} PROVE FALSE
    OBVIOUS
  <2>1. Bad \subseteq Nat
    OBVIOUS
  <2> HIDE DEF Bad
  <2>2. PICK n \in Bad : \A m \in Bad : n <= m
    BY <2>1, LeastOf
  <2>3. n \in Nat /\ n # 0
    BY <1>1, <2>1, <2>2
  <2>4. n - 1 \in Nat /\ n - 1 \notin Bad
    BY <2>1, <2>2, <2>3
  <2>5. (n - 1) + 1 \notin Bad
    BY <1>2, <2>4
  <2> QED BY <2>2, <2>3, <2>5
<1>4. UpTo(Cardinality(S)) = SUBSET S /\ Cardinality(S) \in Nat
  BY Subsets
<1> QED BY <1>3, <1>4

\* So a sum is that of a smaller set, and one element more.
SumsOf(f, S, g) ==
  \A s \in SUBSET S : g[s] = IF s = {} THEN 0 ELSE f[Some(s)] + g[s \ {Some(s)}]
LEMMA SumOfSet ==
  ASSUME NEW f, NEW S, IsFiniteSet(S)
  PROVE  \E g : /\ SumOf(f, S) = g[S]
                /\ SumsOf(f, S, g)
<1> DEFINE g == CHOOSE g : SumsUp(f, SUBSET S, g)
<1>1. SumsUp(f, SUBSET S, g)
  BY SumsExist
<1>2. SumOf(f, S) = g[S]
  BY SumUnfolds
<1> HIDE DEF g
<1>3. \A s \in SUBSET S : g[s] = IF s = {} THEN 0 ELSE f[Some(s)] + g[s \ {Some(s)}]
  BY <1>1 DEF SumsUp
<1> QED BY <1>2, <1>3 DEF SumsOf

\* A sum of zeros is zero.
LEMMA SumOfZeros ==
  ASSUME NEW f, NEW S, IsFiniteSet(S), \A x \in S : f[x] = 0
  PROVE  SumOf(f, S) = 0
<1>1. PICK g : /\ SumOf(f, S) = g[S]
               /\ SumsOf(f, S, g)
  BY SumOfSet
<1> DEFINE Bad == {Cardinality(s) : s \in {s \in SUBSET S : g[s] # 0}}
<1>2. Bad = {}
  <2> SUFFICES ASSUME Bad # {} PROVE FALSE
    OBVIOUS
  <2>1. Bad \subseteq Nat
    <3>1. \A s \in SUBSET S : Cardinality(s) \in Nat
      BY Subsets
    <3> QED BY <3>1
  <2>2. PICK n \in Bad : \A m \in Bad : n <= m
    <3> HIDE DEF Bad
    <3> QED BY <2>1, LeastOf
  <2>3. PICK s \in SUBSET S : g[s] # 0 /\ Cardinality(s) = n
    BY <2>2
  <2>4. s # {} /\ g[s] = f[Some(s)] + g[s \ {Some(s)}]
    BY <1>1, <2>3 DEF SumsOf
  <2>5. Some(s) \in S /\ s \ {Some(s)} \in SUBSET S /\ Cardinality(s \ {Some(s)}) = n - 1
    BY <2>3, <2>4, Subsets
  <2>6. n - 1 \notin Bad
    <3> HIDE DEF Bad
    <3> QED BY <2>1, <2>2
  <2>7. g[s \ {Some(s)}] = 0
    BY <2>5, <2>6
  <2> QED BY <2>3, <2>4, <2>5, <2>7
<1> QED BY <1>1, <1>2

\* A sum grows by what is added to one of its elements.
LEMMA SumGrows ==
  ASSUME NEW f, NEW h, NEW S, IsFiniteSet(S), \A y \in S : f[y] \in Nat,
         NEW x, NEW n \in Nat, \A y \in S : h[y] = IF y = x THEN f[y] + n ELSE f[y]
  PROVE  /\ SumOf(h, S) = SumOf(f, S) + (IF x \in S THEN n ELSE 0)
         /\ SumOf(f, S) \in Nat
<1>1. PICK g : /\ SumOf(f, S) = g[S]
               /\ SumsOf(f, S, g)
  BY SumOfSet
<1>2. PICK k : /\ SumOf(h, S) = k[S]
               /\ SumsOf(h, S, k)
  BY SumOfSet
<1> DEFINE Good(s) == g[s] \in Nat /\ k[s] = g[s] + (IF x \in s THEN n ELSE 0)
           Bad == {Cardinality(s) : s \in {s \in SUBSET S : ~Good(s)}}
<1>3. Bad = {}
  <2> SUFFICES ASSUME Bad # {} PROVE FALSE
    OBVIOUS
  <2>1. Bad \subseteq Nat
    <3>1. \A s \in SUBSET S : Cardinality(s) \in Nat
      BY Subsets
    <3> QED BY <3>1
  <2>2. PICK m \in Bad : \A i \in Bad : m <= i
    <3> HIDE DEF Bad
    <3> QED BY <2>1, LeastOf
  <2>3. PICK s \in SUBSET S : ~Good(s) /\ Cardinality(s) = m
    BY <2>2
  <2>4. s # {}
    <3>1. g[{}] = 0 /\ k[{}] = 0
      BY <1>1, <1>2 DEF SumsOf
    <3>2. Good({})
      BY <3>1
    <3> HIDE DEF Good
    <3> QED BY <2>3, <3>2
  <2> DEFINE y == Some(s)
             t == s \ {Some(s)}
  <2>5. y \in s /\ y \in S /\ t \in SUBSET S /\ Cardinality(t) = m - 1
    BY <2>3, <2>4, Subsets
  <2>6. m - 1 \notin Bad
    <3> HIDE DEF Bad
    <3> QED BY <2>1, <2>2
  <2>7. Good(t)
    BY <2>5, <2>6
  <2>8. g[s] = f[y] + g[t] /\ k[s] = h[y] + k[t] /\ f[y] \in Nat
        /\ h[y] = (IF y = x THEN f[y] + n ELSE f[y])
    BY <1>1, <1>2, <2>4, <2>5 DEF SumsOf
  <2>9. x \in s <=> x = y \/ x \in t
    BY <2>5
  <2>10. ~(x = y /\ x \in t)
    OBVIOUS
  <2> HIDE DEF y, t
  <2>11. Good(s)
    BY <2>7, <2>8, <2>9, <2>10
  <2> QED BY <2>3, <2>11
<1>4. Good(S)
  BY <1>3
<1> QED BY <1>1, <1>2, <1>4

-----------------------------------------------------------------------------
(* The transaction is a fold over the batch.  The same argument shows that *)
(* it keeps what each event keeps.                                         *)

\* g[s] is what the events of the positions s make of the tables t.
Folds(t, T, g) ==
  g = [s \in T |-> IF s = {} THEN t ELSE RecordOne(g[s \ {Max(s)}], batch[Max(s)])]

\* What FoldLeft is defined to be.
LEMMA FoldUnfolds ==
  ASSUME NEW t
  PROVE  FoldLeft(RecordOne, t, batch)
           = (CHOOSE g : Folds(t, SUBSET DOMAIN batch, g))[DOMAIN batch]
BY Zenon DEF FoldLeft, MapThenFoldSet, Folds

\* A position among the first n + 1 is the last of some, or one of the first n.
LEMMA LastOf ==
  ASSUME NEW n \in Nat, NEW s \in SUBSET (1 .. n + 1), s # {}
  PROVE  Max(s) \in s /\ s \ {Max(s)} \in SUBSET (1 .. n)
<1> DEFINE D == {n + 1 - i : i \in s}
<1>1. D \subseteq Nat /\ D # {}
  <2>1. \A i \in s : i \in Nat /\ i <= n + 1 /\ n + 1 - i \in Nat
    OBVIOUS
  <2> QED BY <2>1
<1> HIDE DEF D
<1>2. PICK d \in D : \A e \in D : d <= e
  BY <1>1, LeastOf
<1>3. PICK i \in s : d = n + 1 - i
  BY <1>2 DEF D
<1>4. \A j \in s : n + 1 - j \in D
  BY DEF D
<1>5. \A j \in s : i \in Nat /\ j \in Nat /\ i >= j
  BY <1>2, <1>3, <1>4
<1>6. Max(s) \in s /\ \A j \in s : Max(s) >= j
  BY <1>5 DEF Max
<1> DEFINE m == Max(s)
<1>7. m \in s /\ \A j \in s : m >= j
  BY <1>6
<1> HIDE DEF m
<1>8. ASSUME NEW j \in s, j # m PROVE j \in 1 .. n
  <2>1. j \in Nat /\ m \in Nat /\ 1 <= j /\ j <= m /\ m <= n + 1
    BY <1>7
  <2> QED BY <1>8, <2>1
<1>9. m \in s /\ s \ {m} \in SUBSET (1 .. n)
  BY <1>7, <1>8
<1> QED BY <1>9 DEF m

\* There is such a function.
LEMMA FoldExists ==
  ASSUME NEW t, NEW N \in Nat
  PROVE  \E g : Folds(t, SUBSET (1 .. N), g)
<1> DEFINE Bad == {n \in Nat : ~\E g : Folds(t, SUBSET (1 .. n), g)}
<1>1. 0 \notin Bad
  <2> DEFINE g == [s \in SUBSET (1 .. 0) |-> t]
  <2>1. g = [s \in SUBSET (1 .. 0) |->
               IF s = {} THEN t ELSE RecordOne(g[s \ {Max(s)}], batch[Max(s)])]
    <3>1. \A s \in SUBSET (1 .. 0) : s = {}
      OBVIOUS
    <3> QED BY <3>1
  <2>2. Folds(t, SUBSET (1 .. 0), g)
    BY <2>1 DEF Folds
  <2> QED BY <2>2
<1>2. ASSUME NEW n \in Nat, n \notin Bad PROVE n + 1 \notin Bad
  <2>1. PICK h : Folds(t, SUBSET (1 .. n), h)
    BY <1>2
  <2> DEFINE S == SUBSET (1 .. n)
             T == SUBSET (1 .. n + 1)
             g == [s \in T |->
                     IF s = {} THEN t ELSE RecordOne(h[s \ {Max(s)}], batch[Max(s)])]
  <2>2. \A s \in S : g[s] = h[s]
    <3>1. S \subseteq T
      OBVIOUS
    <3>2. \A s \in S : h[s] = IF s = {} THEN t
                              ELSE RecordOne(h[s \ {Max(s)}], batch[Max(s)])
      BY <2>1 DEF Folds
    <3> QED BY <3>1, <3>2
  <2>3. \A s \in T : s # {} => s \ {Max(s)} \in S
    BY LastOf
  <2> HIDE DEF S
  <2>4. g = [s \in T |-> IF s = {} THEN t ELSE RecordOne(g[s \ {Max(s)}], batch[Max(s)])]
    <3>1. \A s \in T : s # {} => g[s \ {Max(s)}] = h[s \ {Max(s)}]
      BY <2>2, <2>3
    <3> QED BY <3>1
  <2> HIDE DEF T, g
  <2>5. Folds(t, T, g)
    BY <2>4 DEF Folds
  <2> QED BY <2>5 DEF T
<1>3. Bad = {}
  <2> SUFFICES ASSUME Bad # {} PROVE FALSE
    OBVIOUS
  <2>1. Bad \subseteq Nat
    OBVIOUS
  <2> HIDE DEF Bad
  <2>2. PICK n \in Bad : \A m \in Bad : n <= m
    BY <2>1, LeastOf
  <2>3. n \in Nat /\ n # 0
    BY <1>1, <2>1, <2>2
  <2>4. n - 1 \in Nat /\ n - 1 \notin Bad
    BY <2>1, <2>2, <2>3
  <2>5. (n - 1) + 1 \notin Bad
    BY <1>2, <2>4
  <2> QED BY <2>2, <2>3, <2>5
<1> QED BY <1>3

-----------------------------------------------------------------------------
(* What one event of the transaction keeps.                                *)

\* Buckets(t, e) is Used of the buckets of e.
Used(b) == {s \in Sources : b[s] > 0}
Accounted(h, o, b) ==
  /\ h = o + SumOf(b, Sources)
  /\ Cardinality(Used(b)) <= SourceBucketCap
  /\ o > 0 => Cardinality(Used(b)) = SourceBucketCap
OfUser(set, e) == {ev \in set : ev.email = e}

Tables ==
  [hourly : [Emails -> Nat], buckets : [Emails -> [Sources -> Nat]],
   overflow : [Emails -> Nat], captured : SUBSET Events, counts : [Emails -> Nat],
   cached : [Emails -> Nat \union {Uncached}]]

\* The cached number of buckets is the number of buckets.
CountsSources(t) ==
  \A e \in Emails :
    /\ Accounted(t.hourly[e], t.overflow[e], t.buckets[e])
    /\ t.cached[e] \in {Uncached, Cardinality(Used(t.buckets[e]))}

\* The captured events of a user with a session are no more than were counted.
KeepsCap(t) ==
  /\ IsFiniteSet(t.captured)
  /\ \A e \in Emails :
       /\ Cardinality(OfUser(t.captured, e)) <= DebugEventCap
       /\ e \in active => Cardinality(OfUser(t.captured, e)) <= t.counts[e]

Sound(t) == t \in Tables /\ CountsSources(t) /\ KeepsCap(t)

\* What is assumed of the constants.
LEMMA Limits ==
  /\ SourceBucketCap \in Nat \ {0} /\ DebugEventCap \in Nat \ {0}
  /\ DefaultDuration \in Nat \ {0} /\ SessionMax \in Nat \ {0}
  /\ Durations \subseteq Int
  /\ {Retention, LastTime, MaxEvents, MaxStarts, MaxErrors} \subseteq Nat
  /\ IsFiniteSet(Sources)
BY BoundsAssumption

\* The buckets of a user are finitely many.
LEMMA UsedIsFinite ==
  ASSUME NEW b PROVE IsFiniteSet(Used(b)) /\ Cardinality(Used(b)) \in Nat
<1>1. Used(b) \in SUBSET Sources
  BY DEF Used
<1>2. IsFiniteSet(Used(b))
  BY <1>1, Limits, FS_Subset
<1> QED BY <1>2, FS_CardinalityType

\* One more connection from a source: the sum grows by one, and the source is used.
LEMMA OneMore ==
  ASSUME NEW b \in [Sources -> Nat], NEW s \in Sources, NEW c,
         c = [b EXCEPT ![s] = @ + 1]
  PROVE  /\ c \in [Sources -> Nat]
         /\ SumOf(b, Sources) \in Nat /\ SumOf(c, Sources) = SumOf(b, Sources) + 1
         /\ Used(c) = Used(b) \union {s}
         /\ Cardinality(Used(c)) = IF s \in Used(b) THEN Cardinality(Used(b))
                                   ELSE Cardinality(Used(b)) + 1
<1>1. c \in [Sources -> Nat] /\ \A x \in Sources : c[x] = IF x = s THEN b[x] + 1 ELSE b[x]
  OBVIOUS
<1>2. /\ SumOf(c, Sources) = SumOf(b, Sources) + (IF s \in Sources THEN 1 ELSE 0)
      /\ SumOf(b, Sources) \in Nat
  <2>1. \A x \in Sources : b[x] \in Nat
    OBVIOUS
  <2>2. 1 \in Nat /\ IsFiniteSet(Sources)
    BY Limits
  <2> DEFINE f == b
             g == c
             S == Sources
  <2>3. /\ IsFiniteSet(S) /\ \A x \in S : f[x] \in Nat
        /\ \A x \in S : g[x] = IF x = s THEN f[x] + 1 ELSE f[x]
    BY <1>1, <2>1, <2>2
  <2> HIDE DEF f, g, S
  <2>4. /\ SumOf(g, S) = SumOf(f, S) + (IF s \in S THEN 1 ELSE 0)
         /\ SumOf(f, S) \in Nat
    BY <2>2, <2>3, SumGrows
  <2> QED BY <2>4 DEF f, g, S
<1>3. Used(c) = Used(b) \union {s}
  BY <1>1 DEF Used
<1>4. Cardinality(Used(c)) = IF s \in Used(b) THEN Cardinality(Used(b))
                            ELSE Cardinality(Used(b)) + 1
  BY <1>3, UsedIsFinite, FS_AddElement
<1>5. SumOf(c, Sources) = SumOf(b, Sources) + 1
  BY <1>2
<1> QED BY <1>1, <1>2, <1>3, <1>4, <1>5

\* The tables by their columns.
Row(h, b, o, c, n, k) ==
  [hourly |-> h, buckets |-> b, overflow |-> o, captured |-> c, counts |-> n, cached |-> k]
\* All tables are made of columns.
LEMMA RowOf ==
  ASSUME NEW t \in Tables
  PROVE  \E h \in [Emails -> Nat], b \in [Emails -> [Sources -> Nat]],
            o \in [Emails -> Nat], c \in SUBSET Events, n \in [Emails -> Nat],
            k \in [Emails -> Nat \union {Uncached}] :
            t = Row(h, b, o, c, n, k)
<1>1. t = Row(t.hourly, t.buckets, t.overflow, t.captured, t.counts, t.cached)
  BY DEF Tables, Row
<1>2. /\ t.hourly \in [Emails -> Nat] /\ t.buckets \in [Emails -> [Sources -> Nat]]
      /\ t.overflow \in [Emails -> Nat] /\ t.captured \in SUBSET Events
      /\ t.counts \in [Emails -> Nat] /\ t.cached \in [Emails -> Nat \union {Uncached}]
  BY DEF Tables
<1> QED BY <1>1, <1>2
\* Columns make tables.
LEMMA RowType ==
  ASSUME NEW h \in [Emails -> Nat], NEW b \in [Emails -> [Sources -> Nat]],
         NEW o \in [Emails -> Nat], NEW c \in SUBSET Events, NEW n \in [Emails -> Nat],
         NEW k \in [Emails -> Nat \union {Uncached}]
  PROVE  Row(h, b, o, c, n, k) \in Tables
BY DEF Tables, Row

\* What the assignments of the transaction make of the columns.
Plus(f, e) == [f EXCEPT ![e] = @ + 1]
Put(f, e, x) == [f EXCEPT ![e] = x]
PlusAt(f, e, s) == [f EXCEPT ![e][s] = @ + 1]
OneAt(f, e, s) == [f EXCEPT ![e][s] = 1]
AddHour(t, e) == [t EXCEPT !.hourly[e] = @ + 1]
AddAgain(t, e, s) == [t EXCEPT !.buckets[e][s] = @ + 1]
AddOver(t, e, x) == [t EXCEPT !.overflow[e] = @ + 1, !.cached[e] = x]
AddNew(t, e, s, x) == [t EXCEPT !.buckets[e][s] = 1, !.cached[e] = x]
AddEvent(t, e, ev) == [t EXCEPT !.captured = @ \union {ev}, !.counts[e] = @ + 1]
\* One more connection of the hour.
LEMMA RowAddHour ==
  ASSUME NEW h, NEW b, NEW o, NEW c, NEW n, NEW k, NEW e
  PROVE  AddHour(Row(h, b, o, c, n, k), e) = Row(Plus(h, e), b, o, c, n, k)
BY DEF AddHour, Row, Plus
\* One more connection from a source that has a bucket.
LEMMA RowAddAgain ==
  ASSUME NEW h, NEW b, NEW o, NEW c, NEW n, NEW k, NEW e, NEW s
  PROVE  AddAgain(Row(h, b, o, c, n, k), e, s) = Row(h, PlusAt(b, e, s), o, c, n, k)
BY DEF AddAgain, Row, PlusAt
\* One more connection that counts as overflow.
LEMMA RowAddOver ==
  ASSUME NEW h, NEW b, NEW o, NEW c, NEW n, NEW k, NEW e, NEW x
  PROVE  AddOver(Row(h, b, o, c, n, k), e, x) = Row(h, b, Plus(o, e), c, n, Put(k, e, x))
<1> DEFINE t == Row(h, b, o, c, n, k)
           u == [t EXCEPT !.overflow[e] = @ + 1]
<1>1. u = Row(h, b, Plus(o, e), c, n, k)
  BY DEF Row, Plus
<1>2. AddOver(t, e, x) = [u EXCEPT !.cached[e] = x]
  BY DEF AddOver
<1> HIDE DEF u
<1>3. [u EXCEPT !.cached[e] = x] = Row(h, b, Plus(o, e), c, n, Put(k, e, x))
  BY <1>1 DEF Row, Put
<1> QED BY <1>2, <1>3
\* The first connection from a source.
LEMMA RowAddNew ==
  ASSUME NEW h, NEW b, NEW o, NEW c, NEW n, NEW k, NEW e, NEW s, NEW x
  PROVE  AddNew(Row(h, b, o, c, n, k), e, s, x)
           = Row(h, OneAt(b, e, s), o, c, n, Put(k, e, x))
<1> DEFINE t == Row(h, b, o, c, n, k)
           u == [t EXCEPT !.buckets[e][s] = 1]
<1>1. u = Row(h, OneAt(b, e, s), o, c, n, k)
  BY DEF Row, OneAt
<1>2. AddNew(t, e, s, x) = [u EXCEPT !.cached[e] = x]
  BY DEF AddNew
<1> HIDE DEF u
<1>3. [u EXCEPT !.cached[e] = x] = Row(h, OneAt(b, e, s), o, c, n, Put(k, e, x))
  BY <1>1 DEF Row, Put
<1> QED BY <1>2, <1>3
\* One more captured event.
LEMMA RowAddEvent ==
  ASSUME NEW h, NEW b, NEW o, NEW c, NEW n, NEW k, NEW e, NEW x
  PROVE  AddEvent(Row(h, b, o, c, n, k), e, x) = Row(h, b, o, c \union {x}, Plus(n, e), k)
<1> DEFINE t == Row(h, b, o, c, n, k)
           c1 == c \union {x}
           u == [t EXCEPT !.captured = c1]
<1>1. u = Row(h, b, o, c1, n, k)
  BY DEF Row
<1>2. AddEvent(t, e, x) = [u EXCEPT !.counts[e] = @ + 1]
  BY DEF AddEvent, Row
<1> HIDE DEF u, c1
<1>3. [u EXCEPT !.counts[e] = @ + 1] = Row(h, b, o, c1, Plus(n, e), k)
  BY <1>1 DEF Row, Plus
<1> QED BY <1>2, <1>3 DEF c1

\* CountSource counts the connection under its source or as overflow.
LEMMA CountKeeps ==
  ASSUME NEW t \in Tables, CountsSources(t), NEW ev \in Events,
         NEW u, u = CountSource(AddHour(t, ev.email), ev)
  PROVE  u \in Tables /\ CountsSources(u) /\ u.captured = t.captured /\ u.counts = t.counts
<1> DEFINE e == ev.email
           s == ev.source
<1>1. e \in Emails /\ s \in Sources
  BY DEF Events
<1>2. PICK h \in [Emails -> Nat], b \in [Emails -> [Sources -> Nat]],
           o \in [Emails -> Nat], c \in SUBSET Events, n \in [Emails -> Nat],
           k \in [Emails -> Nat \union {Uncached}] :
           t = Row(h, b, o, c, n, k)
  BY RowOf
<1> DEFINE h1 == Plus(h, e)
           t1 == Row(h1, b, o, c, n, k)
           be == [b[e] EXCEPT ![s] = @ + 1]
           m == Cardinality(Used(b[e]))
<1>3. AddHour(t, e) = t1 /\ u = CountSource(t1, ev)
  BY <1>2, RowAddHour
<1>4. b[e] \in [Sources -> Nat] /\ m \in Nat /\ SourceBucketCap \in Nat \ {0}
  BY <1>1, <1>2, UsedIsFinite, Limits
<1>5. Buckets(t1, e) = Used(b[e])
  BY DEF Buckets, Used, Row
<1>6. \A x \in Emails : /\ Accounted(h[x], o[x], b[x])
                         /\ k[x] \in {Uncached, Cardinality(Used(b[x]))}
  BY <1>2 DEF CountsSources, Row
<1>7. (IF k[e] = Uncached THEN Cardinality(Buckets(t1, e)) ELSE k[e]) = m
  BY <1>1, <1>5, <1>6
<1>8. /\ be \in [Sources -> Nat]
      /\ SumOf(be, Sources) = SumOf(b[e], Sources) + 1 /\ SumOf(b[e], Sources) \in Nat
      /\ Used(be) = Used(b[e]) \union {s}
      /\ Cardinality(Used(be)) = IF s \in Used(b[e]) THEN m ELSE m + 1
  BY <1>1, <1>4, OneMore
<1>9. h1 \in [Emails -> Nat] /\ h1[e] = h[e] + 1 /\ \A x \in Emails \ {e} : h1[x] = h[x]
  BY <1>1, <1>2 DEF Plus
<1>10. u = IF s \in Used(b[e]) THEN Row(h1, PlusAt(b, e, s), o, c, n, k)
           ELSE IF m >= SourceBucketCap THEN Row(h1, b, Plus(o, e), c, n, Put(k, e, m))
           ELSE Row(h1, OneAt(b, e, s), o, c, n, Put(k, e, m + 1))
  <2>1. t1.cached = k /\ t1 = Row(h1, b, o, c, n, k)
    BY DEF Row
  <2> HIDE DEF t1, m, h1
  <2>2. u = IF s \in Buckets(t1, e) THEN AddAgain(t1, e, s)
            ELSE IF m >= SourceBucketCap THEN AddOver(t1, e, m) ELSE AddNew(t1, e, s, m + 1)
    BY <1>3, <1>7, <2>1 DEF CountSource, AddAgain, AddOver, AddNew
  <2> HIDE DEF e, s
  <2>3. AddAgain(t1, e, s) = Row(h1, PlusAt(b, e, s), o, c, n, k)
    BY <2>1, RowAddAgain
  <2>4. AddOver(t1, e, m) = Row(h1, b, Plus(o, e), c, n, Put(k, e, m))
    BY <2>1, RowAddOver
  <2>5. AddNew(t1, e, s, m + 1) = Row(h1, OneAt(b, e, s), o, c, n, Put(k, e, m + 1))
    BY <2>1, RowAddNew
  <2> QED BY <1>5, <2>2, <2>3, <2>4, <2>5
<1> HIDE DEF h1, m, t1
<1> DEFINE Fits(b2, o2, k2) ==
             /\ b2 \in [Emails -> [Sources -> Nat]] /\ o2 \in [Emails -> Nat]
             /\ k2 \in [Emails -> Nat \union {Uncached}]
             /\ u = Row(h1, b2, o2, c, n, k2)
             /\ \A x \in Emails \ {e} : b2[x] = b[x] /\ o2[x] = o[x] /\ k2[x] = k[x]
             /\ Accounted(h1[e], o2[e], b2[e])
             /\ k2[e] \in {Uncached, Cardinality(Used(b2[e]))}
           Kept == /\ u \in Tables /\ CountsSources(u)
                   /\ u.captured = t.captured /\ u.counts = t.counts
<1>11. ASSUME NEW b2, NEW o2, NEW k2, Fits(b2, o2, k2) PROVE Kept
  <2>1. u \in Tables
    <3>1. h1 \in [Emails -> Nat] /\ c \in SUBSET Events /\ n \in [Emails -> Nat]
      BY <1>2, <1>9
    <3>2. Row(h1, b2, o2, c, n, k2) \in Tables
      BY <1>11, <3>1, RowType
    <3> QED BY <1>11, <3>2
  <2>2. ASSUME NEW x \in Emails
        PROVE  Accounted(h1[x], o2[x], b2[x]) /\ k2[x] \in {Uncached, Cardinality(Used(b2[x]))}
    <3>1. CASE x = e
      BY <1>11, <3>1
    <3>2. CASE x # e
      <4>1. h1[x] = h[x] /\ o2[x] = o[x] /\ b2[x] = b[x] /\ k2[x] = k[x]
        BY <1>9, <1>11, <3>2
      <4> QED BY <1>6, <4>1
    <3> QED BY <3>1, <3>2
  <2>3. /\ u.hourly = h1 /\ u.overflow = o2 /\ u.buckets = b2 /\ u.cached = k2
        /\ u.captured = t.captured /\ u.counts = t.counts
    BY <1>2, <1>11 DEF Row
  <2> QED BY <2>1, <2>2, <2>3 DEF CountsSources
<1>12. /\ h[e] \in Nat /\ o[e] \in Nat /\ h[e] = o[e] + SumOf(b[e], Sources)
       /\ m <= SourceBucketCap /\ (o[e] > 0 => m = SourceBucketCap)
       /\ k[e] \in {Uncached, m}
  BY <1>1, <1>2, <1>6 DEF Accounted, m
<1>13. SumOf(b[e], Sources) \in Int
  BY <1>8
<1>14. CASE s \in Used(b[e])
  <2> DEFINE b2 == PlusAt(b, e, s)
  <2>1. b2[e] = be /\ b2 \in [Emails -> [Sources -> Nat]]
        /\ \A x \in Emails \ {e} : b2[x] = b[x]
    BY <1>1, <1>2, <1>4, <1>8 DEF PlusAt
  <2>2. u = Row(h1, b2, o, c, n, k)
    BY <1>10, <1>14
  <2> HIDE DEF b2, be
  <2>3. Cardinality(Used(b2[e])) = m
    BY <1>8, <1>14, <2>1
  <2>4. SumOf(b2[e], Sources) = SumOf(b[e], Sources) + 1
    BY <1>8, <2>1
  <2>5. Accounted(h1[e], o[e], b2[e])
    BY <1>9, <1>12, <1>13, <2>3, <2>4 DEF Accounted
  <2>6. Fits(b2, o, k)
    BY <1>2, <1>12, <2>1, <2>2, <2>3, <2>5
  <2> HIDE DEF Fits
  <2> QED BY <1>11, <2>6
<1>15. CASE s \notin Used(b[e]) /\ m >= SourceBucketCap
  <2> DEFINE o2 == Plus(o, e)
             k2 == Put(k, e, m)
  <2>1. /\ o2 \in [Emails -> Nat] /\ k2 \in [Emails -> Nat \union {Uncached}]
        /\ o2[e] = o[e] + 1 /\ k2[e] = m
        /\ \A x \in Emails \ {e} : o2[x] = o[x] /\ k2[x] = k[x]
    BY <1>1, <1>2, <1>4 DEF Plus, Put
  <2>2. u = Row(h1, b, o2, c, n, k2)
    BY <1>10, <1>15
  <2> HIDE DEF o2, k2
  <2>3. /\ h1[e] = o2[e] + SumOf(b[e], Sources) /\ o2[e] > 0 /\ m = SourceBucketCap
        /\ m <= SourceBucketCap
    <3>1. m = SourceBucketCap /\ m <= SourceBucketCap
      BY <1>4, <1>12, <1>15
    <3>2. h1[e] = o2[e] + SumOf(b[e], Sources)
      BY <1>9, <1>12, <1>13, <2>1
    <3>3. o2[e] > 0
      BY <1>12, <2>1
    <3> QED BY <3>1, <3>2, <3>3
  <2>4. Accounted(h1[e], o2[e], b[e])
    BY <2>3 DEF Accounted, m
  <2>5. k2[e] \in {Uncached, Cardinality(Used(b[e]))}
    BY <2>1 DEF m
  <2> DEFINE b2 == b
  <2>6. b2 \in [Emails -> [Sources -> Nat]] /\ o2 \in [Emails -> Nat]
        /\ k2 \in [Emails -> Nat \union {Uncached}]
    BY <1>2, <2>1
  <2>7. \A x \in Emails \ {e} : b2[x] = b[x] /\ o2[x] = o[x] /\ k2[x] = k[x]
    BY <2>1
  <2>8. u = Row(h1, b2, o2, c, n, k2) /\ Accounted(h1[e], o2[e], b2[e])
        /\ k2[e] \in {Uncached, Cardinality(Used(b2[e]))}
    BY <2>2, <2>4, <2>5
  <2> HIDE DEF b2
  <2>9. Fits(b2, o2, k2)
    BY <2>6, <2>7, <2>8
  <2> HIDE DEF Fits
  <2> QED BY <1>11, <2>9
<1>16. CASE s \notin Used(b[e]) /\ m < SourceBucketCap
  <2> DEFINE b2 == OneAt(b, e, s)
             k2 == Put(k, e, m + 1)
  <2>1. b[e][s] = 0
    BY <1>1, <1>4, <1>16 DEF Used
  <2>2. be = [b[e] EXCEPT ![s] = 1]
    BY <1>1, <1>4, <2>1
  <2>3. b2[e] = be /\ b2 \in [Emails -> [Sources -> Nat]]
        /\ \A x \in Emails \ {e} : b2[x] = b[x]
    BY <1>1, <1>2, <1>4, <1>8, <2>2 DEF OneAt
  <2>4. /\ k2 \in [Emails -> Nat \union {Uncached}] /\ k2[e] = m + 1
        /\ \A x \in Emails \ {e} : k2[x] = k[x]
    BY <1>1, <1>2, <1>4 DEF Put
  <2>5. u = Row(h1, b2, o, c, n, k2)
    BY <1>4, <1>10, <1>16
  <2> HIDE DEF b2, k2, be
  <2>6. Cardinality(Used(b2[e])) = m + 1
    BY <1>8, <1>16, <2>3
  <2>7. SumOf(b2[e], Sources) = SumOf(b[e], Sources) + 1
    BY <1>8, <2>3
  <2>8. Accounted(h1[e], o[e], b2[e])
    BY <1>4, <1>9, <1>12, <1>13, <1>16, <2>6, <2>7 DEF Accounted
  <2>9. Fits(b2, o, k2)
    BY <1>2, <2>3, <2>4, <2>5, <2>6, <2>8
  <2> HIDE DEF Fits
  <2> QED BY <1>11, <2>9
<1> QED BY <1>4, <1>14, <1>15, <1>16

\* Capture keeps the cap, since it counts what it adds.
LEMMA CaptureKeeps ==
  ASSUME NEW t, Sound(t), NEW ev \in Events
  PROVE  Sound(Capture(t, ev))
<1> DEFINE e == ev.email
           u == [t EXCEPT !.captured = @ \union {ev}, !.counts[e] = @ + 1]
<1>1. e \in Emails /\ t \in Tables
  BY DEF Events, Sound
<1>2. CASE e \in active /\ t.counts[e] < DebugEventCap
  <2>1. Capture(t, ev) = u
    BY <1>2 DEF Capture
  <2>2. /\ u \in Tables /\ u.hourly = t.hourly /\ u.buckets = t.buckets
        /\ u.overflow = t.overflow /\ u.cached = t.cached
        /\ u.captured = t.captured \union {ev}
        /\ u.counts = [t.counts EXCEPT ![e] = @ + 1] /\ t.counts \in [Emails -> Nat]
    <3>1. PICK h \in [Emails -> Nat], b \in [Emails -> [Sources -> Nat]],
               o \in [Emails -> Nat], c \in SUBSET Events, n \in [Emails -> Nat],
               k \in [Emails -> Nat \union {Uncached}] :
               t = Row(h, b, o, c, n, k)
      BY <1>1, RowOf
    <3> DEFINE c2 == c \union {ev}
               n2 == Plus(n, e)
    <3>2. u = Row(h, b, o, c2, n2, k)
      <4>1. u = AddEvent(t, e, ev)
        BY DEF AddEvent
      <4> HIDE DEF e, u
      <4> QED BY <3>1, <4>1, RowAddEvent
    <3>3. c2 \in SUBSET Events /\ n2 \in [Emails -> Nat]
      BY <1>1, <3>1 DEF Plus
    <3> HIDE DEF c2, n2, u
    <3>4. u \in Tables
      BY <3>1, <3>2, <3>3, RowType
    <3>5. /\ u.hourly = t.hourly /\ u.buckets = t.buckets
          /\ u.overflow = t.overflow /\ u.cached = t.cached
          /\ u.captured = c2 /\ u.counts = n2 /\ t.captured = c /\ t.counts = n
      BY <3>1, <3>2 DEF Row
    <3> QED BY <3>1, <3>4, <3>5 DEF c2, n2, Plus
  <2> HIDE DEF u
  <2>3. CountsSources(u)
    BY <2>2 DEF CountsSources, Sound
  <2>4. IsFiniteSet(u.captured)
    BY <2>2, FS_AddElement DEF Sound, KeepsCap
  <2>5. ASSUME NEW x \in Emails
        PROVE  /\ Cardinality(OfUser(u.captured, x)) <= DebugEventCap
               /\ x \in active => Cardinality(OfUser(u.captured, x)) <= u.counts[x]
    <3>1. IsFiniteSet(OfUser(t.captured, x)) /\ Cardinality(OfUser(t.captured, x)) \in Nat
      <4>1. IsFiniteSet(t.captured) /\ OfUser(t.captured, x) \in SUBSET t.captured
        BY DEF Sound, KeepsCap, OfUser
      <4>2. IsFiniteSet(OfUser(t.captured, x))
        BY <4>1, FS_Subset
      <4> QED BY <4>2, FS_CardinalityType
    <3>2. /\ Cardinality(OfUser(t.captured, x)) <= DebugEventCap
          /\ x \in active => Cardinality(OfUser(t.captured, x)) <= t.counts[x]
      BY DEF Sound, KeepsCap
    <3>3. CASE x = e
      <4>1. OfUser(u.captured, x) = OfUser(t.captured, x) \union {ev}
        BY <2>2, <3>3 DEF OfUser
      <4>2. Cardinality(OfUser(u.captured, x)) <= Cardinality(OfUser(t.captured, x)) + 1
            /\ Cardinality(OfUser(u.captured, x)) \in Nat
        <5>1. Cardinality(OfUser(t.captured, x) \union {ev})
                \in {Cardinality(OfUser(t.captured, x)),
                     Cardinality(OfUser(t.captured, x)) + 1}
          BY <3>1, FS_AddElement
        <5> QED BY <3>1, <4>1, <5>1
      <4>3. u.counts[x] = t.counts[x] + 1 /\ t.counts[x] \in Nat
        BY <1>1, <2>2, <3>3
      <4> QED BY <1>2, <3>1, <3>2, <3>3, <4>2, <4>3, Limits
    <3>4. CASE x # e
      <4>1. OfUser(u.captured, x) = OfUser(t.captured, x)
        BY <2>2, <3>4 DEF OfUser
      <4>2. u.counts[x] = t.counts[x]
        BY <1>1, <2>2, <3>4
      <4> QED BY <3>2, <4>1, <4>2
    <3> QED BY <3>3, <3>4
  <2> QED BY <2>1, <2>2, <2>3, <2>4, <2>5 DEF Sound, KeepsCap
<1>3. CASE ~(e \in active /\ t.counts[e] < DebugEventCap)
  <2>1. Capture(t, ev) = t
    BY <1>3 DEF Capture
  <2> QED BY <2>1
<1> QED BY <1>2, <1>3

\* One event of the transaction keeps the tables sound.
LEMMA RecordKeeps ==
  ASSUME NEW t, Sound(t), NEW ev \in Events
  PROVE  Sound(RecordOne(t, ev))
<1> DEFINE u == CountSource(AddHour(t, ev.email), ev)
<1>1. u \in Tables /\ CountsSources(u) /\ u.captured = t.captured /\ u.counts = t.counts
  BY CountKeeps DEF Sound
<1>2. Sound(u)
  BY <1>1 DEF Sound, KeepsCap
<1>3. RecordOne(t, ev) = Capture(u, ev)
  BY DEF RecordOne, AddHour
<1> HIDE DEF u
<1> QED BY <1>2, <1>3, CaptureKeeps

\* And so does the transaction.
LEMMA FoldKeeps ==
  ASSUME NEW t, Sound(t), batch \in Seq(Events)
  PROVE  Sound(FoldLeft(RecordOne, t, batch))
<1> DEFINE N == Len(batch)
           P == SUBSET (1 .. N)
           g == CHOOSE g : Folds(t, P, g)
<1>1. N \in Nat /\ DOMAIN batch = 1 .. N /\ \A i \in 1 .. N : batch[i] \in Events
  OBVIOUS
<1>2. FoldLeft(RecordOne, t, batch) = g[1 .. N]
  BY <1>1, FoldUnfolds
<1>3. Folds(t, P, g)
  BY <1>1, FoldExists
<1> HIDE DEF g, N
<1>4. \A s \in P : g[s] = IF s = {} THEN t ELSE RecordOne(g[s \ {Max(s)}], batch[Max(s)])
  BY <1>3 DEF Folds
<1> DEFINE Bad == {n \in 0 .. N : \E s \in SUBSET (1 .. n) : ~Sound(g[s])}
<1>5. Bad = {}
  <2> SUFFICES ASSUME Bad # {} PROVE FALSE
    OBVIOUS
  <2>1. Bad \subseteq Nat
    BY <1>1
  <2>2. PICK n \in Bad : \A m \in Bad : n <= m
    <3> HIDE DEF Bad
    <3> QED BY <2>1, LeastOf
  <2>3. PICK s \in SUBSET (1 .. n) : ~Sound(g[s])
    BY <2>2
  <2>4. n \in Nat /\ n <= N /\ s \in P
    BY <1>1, <2>1, <2>2, <2>3
  <2>5. s # {} /\ n # 0
    <3>1. g[{}] = t
      BY <1>4
    <3>2. s # {}
      BY <2>3, <3>1
    <3>3. n # 0
      <4> SUFFICES ASSUME n = 0 PROVE FALSE
        OBVIOUS
      <4>1. 1 .. n = {}
        OBVIOUS
      <4> QED BY <2>3, <3>2, <4>1
    <3> QED BY <3>2, <3>3
  <2> DEFINE m == n - 1
  <2>6. m \in Nat /\ m + 1 = n /\ m \in 0 .. N /\ ~(n <= m)
    BY <1>1, <2>4, <2>5
  <2> HIDE DEF m
  <2>7. Max(s) \in s /\ s \ {Max(s)} \in SUBSET (1 .. m)
    BY <2>3, <2>5, <2>6, LastOf
  <2>8. Sound(g[s \ {Max(s)}])
    BY <2>2, <2>6, <2>7
  <2>9. batch[Max(s)] \in Events
    BY <1>1, <2>4, <2>7
  <2>10. g[s] = RecordOne(g[s \ {Max(s)}], batch[Max(s)])
    BY <1>4, <2>4, <2>5
  <2> QED BY <2>3, <2>8, <2>9, <2>10, RecordKeeps
<1>6. Sound(g[1 .. N])
  <2>1. N \in 0 .. N /\ N \notin Bad
    <3>1. N \in 0 .. N
      BY <1>1
    <3> HIDE DEF Bad
    <3> QED BY <1>5, <3>1
  <2>2. \A s \in SUBSET (1 .. N) : Sound(g[s])
    BY <2>1
  <2> QED BY <2>2
<1> QED BY <1>2, <1>6

-----------------------------------------------------------------------------
(* The tables between the steps.                                           *)

\* While a flush waits to commit, sessions start and stop and events are removed: what
\* it counted of its active sessions can only have shrunk.
CountsSuffice ==
  pc = "commit" => \A e \in active : Cardinality(OfUser(captured, e)) <= counts[e]

CapKept ==
  /\ IsFiniteSet(captured)
  /\ \A e \in Emails : Cardinality(OfUser(captured, e)) <= DebugEventCap
AllAccounted == \A e \in Emails : Accounted(hourly[e], overflow[e], buckets[e])

IInv == TypeOK /\ CapKept /\ CountsSuffice /\ AllAccounted

\* The events of a user, and fewer of them.
LEMMA Fewer ==
  ASSUME NEW A, NEW B, IsFiniteSet(A), B \subseteq A, NEW e
  PROVE  /\ IsFiniteSet(B) /\ Cardinality(OfUser(A, e)) \in Nat
         /\ Cardinality(OfUser(B, e)) \in Nat
         /\ Cardinality(OfUser(B, e)) <= Cardinality(OfUser(A, e))
<1>1. OfUser(A, e) \in SUBSET A /\ OfUser(B, e) \in SUBSET OfUser(A, e)
  BY DEF OfUser
<1>2. IsFiniteSet(OfUser(A, e)) /\ IsFiniteSet(B)
  BY <1>1, FS_Subset
<1>3. IsFiniteSet(OfUser(B, e)) /\ Cardinality(OfUser(B, e)) <= Cardinality(OfUser(A, e))
  BY <1>1, <1>2, FS_Subset
<1> QED BY <1>2, <1>3, FS_CardinalityType

\* Empty tables are accounted for.
LEMMA InvInit == Init => IInv
<1> SUFFICES ASSUME Init PROVE IInv
  OBVIOUS
<1>1. /\ hourly \in [Emails -> Nat] /\ overflow \in [Emails -> Nat]
      /\ counts \in [Emails -> Nat]
      /\ buckets \in [Emails -> [Sources -> Nat]]
      /\ expires \in [Emails -> Times \union {NoSession}]
  BY DEF Init, Zeros
<1>2. 0 \in 0 .. LastTime /\ 0 \in Times /\ 0 \in 0 .. MaxEvents /\ 0 \in 0 .. MaxStarts
      /\ 0 \in 0 .. MaxErrors
  BY Limits DEF Times
<1>3. TypeOK
  BY <1>1, <1>2 DEF Init, TypeOK, PcValues
<1>4. CapKept
  <2>1. \A e \in Emails : OfUser({}, e) = {}
    BY DEF OfUser
  <2>2. captured = {} /\ IsFiniteSet({}) /\ Cardinality({}) = 0
    BY FS_EmptySet DEF Init
  <2>3. ASSUME NEW e \in Emails PROVE Cardinality(OfUser(captured, e)) <= DebugEventCap
    <3>1. Cardinality(OfUser(captured, e)) = 0
      BY <2>1, <2>2
    <3> QED BY <3>1, Limits
  <2> QED BY <2>2, <2>3 DEF CapKept
<1>5. CountsSuffice
  BY DEF Init, CountsSuffice
<1>6. ASSUME NEW e \in Emails PROVE Accounted(hourly[e], overflow[e], buckets[e])
  <2>1. hourly[e] = 0 /\ overflow[e] = 0 /\ \A s \in Sources : buckets[e][s] = 0
    BY DEF Init, Zeros
  <2>2. SumOf(buckets[e], Sources) = 0
    BY <2>1, Limits, SumOfZeros
  <2>3. Used(buckets[e]) = {}
    BY <2>1 DEF Used
  <2>4. Cardinality(Used(buckets[e])) = 0
    BY <2>3, FS_EmptySet
  <2> QED BY <2>1, <2>2, <2>4, Limits DEF Accounted
<1> QED BY <1>3, <1>4, <1>5, <1>6 DEF IInv, AllAccounted

\* What only removes events or leaves them alone, and counts no connection.
Removes ==
  /\ captured' \subseteq captured
  /\ UNCHANGED <<hourly, buckets, overflow>>
  /\ pc' = "commit" => pc = "commit" /\ UNCHANGED <<active, counts>>
LEMMA RemovesKeeps ==
  ASSUME IInv, TypeOK', Removes PROVE IInv'
<1>1. IsFiniteSet(captured) /\ captured' \subseteq captured
  BY DEF IInv, CapKept, Removes
<1>2. IsFiniteSet(captured')
  BY <1>1, Fewer
<1>3. ASSUME NEW e
      PROVE  /\ Cardinality(OfUser(captured, e)) \in Nat
             /\ Cardinality(OfUser(captured', e)) \in Nat
             /\ Cardinality(OfUser(captured', e)) <= Cardinality(OfUser(captured, e))
  BY <1>1, Fewer
<1>4. CapKept'
  <2>1. ASSUME NEW e \in Emails PROVE Cardinality(OfUser(captured', e)) <= DebugEventCap
    <3>1. Cardinality(OfUser(captured, e)) <= DebugEventCap
      BY DEF IInv, CapKept
    <3> QED BY <1>3, <3>1, Limits
  <2> QED BY <1>2, <2>1 DEF CapKept
<1>5. CountsSuffice'
  <2> SUFFICES ASSUME pc' = "commit", NEW e \in active'
               PROVE  Cardinality(OfUser(captured', e)) <= counts'[e]
    BY DEF CountsSuffice
  <2>1. pc = "commit" /\ active' = active /\ counts' = counts
    BY DEF Removes
  <2>2. Cardinality(OfUser(captured, e)) <= counts[e] /\ counts[e] \in Nat
    BY <2>1 DEF IInv, CountsSuffice, TypeOK
  <2> QED BY <1>3, <2>1, <2>2
<1>6. AllAccounted'
  BY DEF IInv, AllAccounted, Removes
<1> QED BY <1>4, <1>5, <1>6 DEF IInv

\* The counts of a flush are those of the sessions that are active.
LEMMA CountsStep == IInv /\ FlushCounts => IInv'
<1> SUFFICES ASSUME IInv, FlushCounts PROVE IInv'
  OBVIOUS
<1>1. ASSUME NEW e \in Emails PROVE Cardinality(CapturedOf(e)) \in Nat
  <2>1. CapturedOf(e) = OfUser(captured, e)
    BY DEF CapturedOf, OfUser
  <2> QED BY <2>1, Fewer DEF IInv, CapKept
<1>2. counts' = [e \in Emails |-> IF e \in active THEN Cardinality(CapturedOf(e)) ELSE 0]
      /\ pc' = "commit"
      /\ UNCHANGED <<now, tableVars, batch, active, since, events, starts, errors>>
  BY DEF FlushCounts
<1>3. counts' \in [Emails -> Nat]
  BY <1>1, <1>2
<1>4. TypeOK'
  BY <1>2, <1>3 DEF IInv, TypeOK, tableVars, PcValues
<1>5. CapKept' /\ AllAccounted'
  BY <1>2 DEF IInv, CapKept, AllAccounted, tableVars
<1>6. ASSUME NEW e \in active PROVE Cardinality(OfUser(captured, e)) <= counts'[e]
  <2>1. e \in Emails /\ counts'[e] = Cardinality(CapturedOf(e)) /\ counts'[e] \in Nat
    BY <1>2, <1>3, <1>6 DEF IInv, TypeOK
  <2>2. CapturedOf(e) = OfUser(captured, e)
    BY DEF CapturedOf, OfUser
  <2> QED BY <2>1, <2>2
<1>7. CountsSuffice'
  BY <1>2, <1>6 DEF CountsSuffice, tableVars
<1> QED BY <1>4, <1>5, <1>7 DEF IInv

\* The transaction starts from sound tables and so ends in sound ones.
LEMMA CommitStep == IInv /\ FlushCommit => IInv'
<1> SUFFICES ASSUME IInv, FlushCommit PROVE IInv'
  OBVIOUS
<1> DEFINE none == [e \in Emails |-> Uncached]
           t == [hourly |-> hourly, buckets |-> buckets, overflow |-> overflow,
                 captured |-> captured, counts |-> counts, cached |-> none]
           u == FoldLeft(RecordOne, t, batch)
<1>1. /\ hourly' = u.hourly /\ buckets' = u.buckets /\ overflow' = u.overflow
      /\ captured' = u.captured
      /\ batch' = <<>> /\ pc' = "select" /\ Forget
      /\ UNCHANGED <<now, expires, events, starts, errors>>
  BY DEF FlushCommit
<1>2. Sound(t)
  <2>1. /\ t.hourly = hourly /\ t.buckets = buckets /\ t.overflow = overflow
        /\ t.captured = captured /\ t.counts = counts /\ t.cached = none
    OBVIOUS
  <2>2. none \in [Emails -> Nat \union {Uncached}] /\ \A e \in Emails : none[e] = Uncached
    OBVIOUS
  <2>3. t \in Tables
    BY <2>2 DEF IInv, TypeOK, Tables
  <2> HIDE DEF t, none
  <2>4. CountsSources(t)
    BY <2>1, <2>2 DEF IInv, AllAccounted, CountsSources
  <2>5. KeepsCap(t)
    BY <2>1 DEF IInv, CapKept, CountsSuffice, FlushCommit, KeepsCap
  <2> QED BY <2>3, <2>4, <2>5 DEF Sound
<1> HIDE DEF t
<1>3. Sound(u)
  BY <1>2, FoldKeeps DEF IInv, TypeOK
<1> HIDE DEF u
<1>4. u \in Tables /\ CountsSources(u) /\ KeepsCap(u)
  BY <1>3 DEF Sound
<1>5. /\ hourly' \in [Emails -> Nat] /\ buckets' \in [Emails -> [Sources -> Nat]]
      /\ overflow' \in [Emails -> Nat] /\ captured' \in SUBSET Events
  BY <1>1, <1>4 DEF Tables
<1>6. active' = {} /\ counts' \in [Emails -> Nat] /\ since' \in Times
  <2>1. 0 \in Times
    BY Limits DEF Times
  <2> QED BY <1>1, <2>1 DEF Forget, Zeros
<1>7. TypeOK'
  BY <1>1, <1>5, <1>6 DEF IInv, TypeOK, PcValues
<1>8. CapKept'
  BY <1>1, <1>4 DEF KeepsCap, CapKept
<1>9. CountsSuffice'
  BY <1>1 DEF CountsSuffice
<1>10. AllAccounted'
  BY <1>1, <1>4 DEF CountsSources, AllAccounted
<1> QED BY <1>7, <1>8, <1>9, <1>10 DEF IInv

\* Forgetting the locals leaves them well typed.
LEMMA ForgetType ==
  ASSUME Forget
  PROVE  active' \subseteq Emails /\ counts' \in [Emails -> Nat] /\ since' \in Times
<1>1. 0 \in Times
  BY Limits DEF Times
<1> QED BY <1>1 DEF Forget, Zeros

\* The other steps of the tailer.
LEMMA TailerStep ==
  ASSUME IInv, FlushActive \/ Cleanup \/ StatementFails
  PROVE  IInv'
<1> USE DEF tableVars, localVars
<1>0. TypeOK
  BY DEF IInv
<1>1. CASE FlushActive
  <2>1. TypeOK'
    BY <1>0, <1>1 DEF FlushActive, TypeOK, PcValues
  <2>2. Removes
    BY <1>1 DEF FlushActive, Removes
  <2> QED BY <2>1, <2>2, RemovesKeeps
<1>2. CASE CleanEvents
  <2>1. now \in Times
    BY <1>0, Limits DEF TypeOK, Times
  <2>2. TypeOK'
    BY <1>0, <1>2, <2>1 DEF CleanEvents, TypeOK, PcValues
  <2>3. Removes
    BY <1>2 DEF CleanEvents, Removes
  <2> QED BY <2>2, <2>3, RemovesKeeps
<1>3. CASE CleanSessions
  <2>1. expires' \in [Emails -> Times \union {NoSession}]
    BY <1>0, <1>3 DEF CleanSessions, TypeOK
  <2>2. TypeOK'
    BY <1>0, <1>3, <2>1 DEF CleanSessions, TypeOK, PcValues
  <2>3. Removes
    BY <1>3 DEF CleanSessions, Removes
  <2> QED BY <2>2, <2>3, RemovesKeeps
<1>4. CASE CleanOld
  <2>1. TypeOK'
    BY <1>0, <1>4, ForgetType DEF CleanOld, TypeOK, PcValues
  <2>2. Removes
    BY <1>4 DEF CleanOld, Removes
  <2> QED BY <2>1, <2>2, RemovesKeeps
<1>5. CASE StatementFails
  <2>1. errors' \in 0 .. MaxErrors
    BY <1>0, <1>5, Limits DEF StatementFails, TypeOK
  <2>2. TypeOK'
    BY <1>0, <1>5, <2>1, ForgetType DEF StatementFails, TypeOK, PcValues
  <2>3. Removes
    BY <1>5 DEF StatementFails, Removes
  <2> QED BY <2>2, <2>3, RemovesKeeps
<1> QED BY <1>1, <1>2, <1>3, <1>4, <1>5 DEF Cleanup

\* The steps of the others.
LEMMA WorldStep ==
  ASSUME IInv,
         \/ \E e \in Emails : StartDebugSession(e) \/ StopDebugSession(e) \/ Connect(e)
         \/ TimePasses
  PROVE  IInv'
<1> USE DEF tableVars, localVars
<1>0. TypeOK
  BY DEF IInv
<1>1. ASSUME NEW e \in Emails, StartDebugSession(e) PROVE IInv'
  <2>1. PICK d \in Durations : expires' = [expires EXCEPT ![e] = now + Length(d)]
    BY <1>1 DEF StartDebugSession
  <2>2. Length(d) \in Nat /\ Length(d) <= SessionMax
    BY Limits DEF Length
  <2>3. now + Length(d) \in Times
    <3>1. now \in Nat /\ now <= LastTime /\ LastTime \in Nat /\ SessionMax \in Nat
      BY <1>0, Limits DEF TypeOK
    <3>2. now + Length(d) \in Nat /\ now + Length(d) <= LastTime + SessionMax
      BY <2>2, <3>1
    <3> QED BY <3>1, <3>2 DEF Times
  <2>4. starts' \in 0 .. MaxStarts
    BY <1>0, <1>1, Limits DEF StartDebugSession, TypeOK
  <2>5. expires' \in [Emails -> Times \union {NoSession}]
    BY <1>0, <2>1, <2>3 DEF TypeOK
  <2>6. TypeOK'
    BY <1>0, <1>1, <2>4, <2>5 DEF StartDebugSession, TypeOK
  <2>7. Removes
    BY <1>1 DEF StartDebugSession, Removes
  <2> QED BY <2>6, <2>7, RemovesKeeps
<1>2. ASSUME NEW e \in Emails, StopDebugSession(e) PROVE IInv'
  <2>1. TypeOK'
    BY <1>0, <1>2 DEF StopDebugSession, TypeOK
  <2>2. Removes
    BY <1>2 DEF StopDebugSession, Removes
  <2> QED BY <2>1, <2>2, RemovesKeeps
<1>3. ASSUME NEW e \in Emails, Connect(e) PROVE IInv'
  <2>1. PICK s \in Sources :
          batch' = Append(batch, [id |-> events + 1, email |-> e, source |-> s, ts |-> now])
    BY <1>3 DEF Connect
  <2>2. events + 1 \in 1 .. MaxEvents /\ events' = events + 1 /\ events' \in 0 .. MaxEvents
    BY <1>0, <1>3, Limits DEF Connect, TypeOK
  <2>3. now \in Times
    BY <1>0, Limits, SMTT(30) DEF TypeOK, Times
  <2>4. [id |-> events + 1, email |-> e, source |-> s, ts |-> now] \in Events
    BY <2>2, <2>3 DEF Events
  <2>5. batch' \in Seq(Events)
    BY <1>0, <2>1, <2>4 DEF TypeOK
  <2>6. TypeOK'
    BY <1>0, <1>3, <2>2, <2>5 DEF Connect, TypeOK
  <2>7. Removes
    BY <1>3 DEF Connect, Removes
  <2> QED BY <2>6, <2>7, RemovesKeeps
<1>4. CASE TimePasses
  <2>1. now' \in 0 .. LastTime
    BY <1>0, <1>4, Limits DEF TimePasses, TypeOK
  <2>2. TypeOK'
    BY <1>0, <1>4, <2>1 DEF TimePasses, TypeOK
  <2>3. Removes
    BY <1>4 DEF TimePasses, Removes
  <2> QED BY <2>2, <2>3, RemovesKeeps
<1> QED BY <1>1, <1>2, <1>3, <1>4

\* Every step keeps the invariant.
LEMMA InvStep == IInv /\ [Next]_vars => IInv'
<1> SUFFICES ASSUME IInv, [Next]_vars PROVE IInv'
  OBVIOUS
<1>1. CASE UNCHANGED vars
  BY <1>1 DEF IInv, TypeOK, CapKept, CountsSuffice, AllAccounted, vars, tableVars, localVars
<1> QED BY <1>1, CountsStep, CommitStep, TailerStep, WorldStep DEF Next, Flush

\* And so it always holds.
LEMMA Invariance == Spec => []IInv
BY InvInit, InvStep, PTL DEF Spec

-----------------------------------------------------------------------------
(* Theorems.                                                               *)

\* The tables of the diagnostics and the locals of the tailer hold what the code puts
\* into them, whatever fails and whoever interferes.
THEOREM TypeCorrect == Spec => []TypeOK
<1>1. IInv => TypeOK
  BY DEF IInv
<1> QED BY <1>1, Invariance, PTL

\* No session holds more events than the cap although they are counted before the
\* transaction, and every connection is counted, under a source while buckets last.
THEOREM LimitsKept == Spec => []LimitsHold
<1>1. IInv => LimitsHold
  <2> SUFFICES ASSUME IInv PROVE LimitsHold
    OBVIOUS
  <2>1. DebugCapHolds
    <3>1. \A e \in Emails : CapturedOf(e) = OfUser(captured, e)
      BY DEF CapturedOf, OfUser
    <3> QED BY <3>1 DEF IInv, CapKept, DebugCapHolds
  <2>2. SourcesAccounted
    BY DEF IInv, AllAccounted, Accounted, Used, SumOf, SourcesAccounted
  <2> QED BY <2>1, <2>2 DEF LimitsHold
<1> QED BY <1>1, Invariance, PTL

-----------------------------------------------------------------------------
(* AccessLogTailer: how a text is cut and parsed.                          *)

\* Least and Nth: there is a least one, and exactly one in each place.
LEMMA LeastIs ==
  ASSUME NEW S, S \subseteq Nat, S # {}
  PROVE  Least(S) \in S /\ \A y \in S : Least(S) <= y
BY LeastOf DEF Least

UpTo(x, S) == {y \in S : y <= x}
LEMMA UpToIs ==
  ASSUME NEW S, S \subseteq Nat, IsFiniteSet(S), NEW x \in S
  PROVE  /\ Cardinality(UpTo(x, S)) \in 1 .. Cardinality(S)
         /\ \A y \in S : x < y => Cardinality(UpTo(x, S)) < Cardinality(UpTo(y, S))
<1>1. ASSUME NEW z \in S
      PROVE  /\ IsFiniteSet(UpTo(z, S)) /\ Cardinality(UpTo(z, S)) \in Nat
             /\ Cardinality(UpTo(z, S)) <= Cardinality(S) /\ Cardinality(S) \in Nat
  <2>1. UpTo(z, S) \subseteq S
    BY DEF UpTo
  <2> QED BY <2>1, FS_Subset, FS_CardinalityType
<1>2. Cardinality(UpTo(x, S)) # 0
  <2>1. x \in UpTo(x, S)
    BY DEF UpTo
  <2> QED BY <1>1, <2>1, FS_EmptySet
<1>3. ASSUME NEW y \in S, x < y PROVE Cardinality(UpTo(x, S)) < Cardinality(UpTo(y, S))
  <2>0. x \in Nat /\ y \in Nat /\ \A z \in S : z \in Nat
    OBVIOUS
  <2>1. UpTo(x, S) \subseteq UpTo(y, S) /\ y \in UpTo(y, S) /\ y \notin UpTo(x, S)
    <3>1. \A z \in S : z <= x => z <= y
      BY <1>3, <2>0
    <3>2. ~(y <= x) /\ y <= y
      BY <1>3, <2>0
    <3> QED BY <3>1, <3>2 DEF UpTo
  <2>2. /\ Cardinality(UpTo(x, S)) <= Cardinality(UpTo(y, S))
        /\ Cardinality(UpTo(x, S)) = Cardinality(UpTo(y, S)) => UpTo(x, S) = UpTo(y, S)
    BY <1>1, <2>1, FS_Subset
  <2> QED BY <1>1, <2>1, <2>2
<1> QED BY <1>1, <1>2, <1>3

\* No place is skipped: the least number that k members do not exceed is a member.
LEMMA PlaceTaken ==
  ASSUME NEW n \in Nat, NEW S, S \subseteq 1 .. n, IsFiniteSet(S), NEW k \in 1 .. Cardinality(S)
  PROVE  \E x \in S : Cardinality(UpTo(x, S)) = k
<1> DEFINE R(m) == Cardinality(UpTo(m, S))
           Far == {m \in Nat : k <= R(m)}
<1>0. Cardinality(S) \in Nat
  BY FS_CardinalityType
<1>1. \A m \in Nat : R(m) \in Nat /\ IsFiniteSet(UpTo(m, S))
  <2>1. \A m \in Nat : UpTo(m, S) \subseteq S
    BY DEF UpTo
  <2> QED BY <2>1, FS_Subset, FS_CardinalityType
<1>2. Far # {}
  <2>1. UpTo(n, S) = S
    <3>1. \A z \in S : z <= n
      OBVIOUS
    <3> QED BY <3>1 DEF UpTo
  <2> QED BY <2>1, <1>0
<1>3. PICK m \in Far : \A j \in Far : m <= j
  <2> HIDE DEF Far
  <2>1. Far \subseteq Nat
    BY DEF Far
  <2> QED BY <1>2, <2>1, LeastOf
<1>a. m \in Nat /\ \A z \in S : z \in Nat /\ z # 0
  OBVIOUS
<1>4. m \in S
  <2> SUFFICES ASSUME m \notin S PROVE FALSE
    OBVIOUS
  <2>1. CASE m = 0
    <3>1. UpTo(m, S) = {}
      <4>1. \A z \in S : ~(z <= m)
        BY <1>a, <2>1
      <4> QED BY <4>1 DEF UpTo
    <3> QED BY <3>1, FS_EmptySet
  <2>2. CASE m # 0
    <3>1. m - 1 \in Nat /\ UpTo(m - 1, S) = UpTo(m, S)
      <4>1. \A z \in S : z <= m - 1 <=> z <= m
        BY <1>a, <2>2
      <4>2. m - 1 \in Nat
        BY <1>a, <2>2
      <4> QED BY <4>1, <4>2 DEF UpTo
    <3>2. m - 1 \in Far
      BY <3>1
    <3> QED BY <1>3, <3>2
  <2> QED BY <2>1, <2>2
<1>5. R(m) = k
  <2>2. m # 0
    BY <1>4, <1>a
  <2>3. QED
    <3>1. m - 1 \in Nat /\ UpTo(m, S) = UpTo(m - 1, S) \union {m} /\ m \notin UpTo(m - 1, S)
      <4>1. \A z \in S : z <= m <=> z <= m - 1 \/ z = m
        BY <1>a
      <4>2. m - 1 \in Nat /\ ~(m <= m - 1)
        BY <1>a, <2>2
      <4> QED BY <4>1, <4>2, <1>4 DEF UpTo
    <3>2. R(m) = R(m - 1) + 1
      BY <1>1, <3>1, FS_AddElement
    <3>3. m - 1 \notin Far
      BY <1>3, <3>1
    <3>4. R(m) \in Nat /\ R(m - 1) \in Nat /\ k \in Nat /\ ~(k <= R(m - 1)) /\ k <= R(m)
      <4>1. k \in Nat /\ m \in Far /\ m - 1 \notin Far /\ m - 1 \in Nat
        BY <1>0, <1>3, <3>1, <3>3
      <4>2. ~(k <= R(m - 1)) /\ k <= R(m)
        BY <4>1
      <4> QED BY <1>1, <1>a, <4>1, <4>2
    <3> QED BY <3>2, <3>4
<1> QED BY <1>4, <1>5

\* So Nth counts the members of a finite set.
LEMMA NthIs ==
  ASSUME NEW n \in Nat, NEW S, S \subseteq 1 .. n, IsFiniteSet(S)
  PROVE  /\ \A k \in 1 .. Cardinality(S) : Nth(k, S) \in S
         /\ \A k, l \in 1 .. Cardinality(S) : Nth(k, S) = Nth(l, S) => k = l
         /\ \A x \in S : \E k \in 1 .. Cardinality(S) : Nth(k, S) = x
<1>1. ASSUME NEW k \in 1 .. Cardinality(S)
      PROVE  Nth(k, S) \in S /\ Cardinality(UpTo(Nth(k, S), S)) = k
  <2>1. \E x \in S : Cardinality(UpTo(x, S)) = k
    BY PlaceTaken
  <2>2. Nth(k, S) = CHOOSE x \in S : Cardinality(UpTo(x, S)) = k
    BY DEF Nth, UpTo
  <2> QED BY <2>1, <2>2
<1>2. ASSUME NEW x \in S PROVE \E k \in 1 .. Cardinality(S) : Nth(k, S) = x
  <2> DEFINE k == Cardinality(UpTo(x, S))
  <2>0. S \subseteq Nat
    OBVIOUS
  <2>1. k \in 1 .. Cardinality(S)
    BY <2>0, UpToIs
  <2>2. Nth(k, S) \in S /\ Cardinality(UpTo(Nth(k, S), S)) = k
    BY <1>1, <2>1
  <2>3. ~(x < Nth(k, S)) /\ ~(Nth(k, S) < x)
    <3>1. S \subseteq Nat
      OBVIOUS
    <3> HIDE DEF k
    <3>2. /\ x < Nth(k, S) => Cardinality(UpTo(x, S)) < Cardinality(UpTo(Nth(k, S), S))
          /\ Nth(k, S) < x => Cardinality(UpTo(Nth(k, S), S)) < Cardinality(UpTo(x, S))
      BY <2>2, <3>1, UpToIs
    <3> QED BY <2>1, <2>2, <3>2 DEF k
  <2>4. Nth(k, S) = x
    <3> HIDE DEF k
    <3>1. \A z \in S : z \in Int
      OBVIOUS
    <3>2. Nth(k, S) \in Int /\ x \in Int
      BY <2>2, <3>1
    <3> QED BY <2>3, <3>2
  <2> QED BY <2>1, <2>4
<1> QED BY <1>1, <1>2

\* What a text is made of, and what is cut from one.
Text == Seq(Parts)
LEMMA InText ==
  ASSUME NEW text \in Text
  PROVE  /\ Len(text) \in Nat /\ DOMAIN text = 1 .. Len(text)
         /\ \A i \in 1 .. Len(text) : /\ text[i] \in Parts
                                      /\ text[i][1] \in Lines
                                      /\ text[i][2] \in First .. EndOfLine
BY DEF Text, Parts

CutOf(text, start, n) == [i \in 1 .. Least({n, Len(text) - start}) |-> text[start + i]]
LEMMA LeastOfTwo ==
  ASSUME NEW a \in Int, NEW b \in Int
  PROVE  Least({a, b}) = IF a <= b THEN a ELSE b
<1> DEFINE m == IF a <= b THEN a ELSE b
<1>1. m \in {a, b} /\ m <= a /\ m <= b /\ m \in Int
  OBVIOUS
<1>2. \E x \in {a, b} : \A y \in {a, b} : x <= y
  BY <1>1
<1>3. Least({a, b}) \in {a, b} /\ Least({a, b}) <= a /\ Least({a, b}) <= b
  BY <1>2 DEF Least
<1> QED BY <1>1, <1>3

IsCut(c, text, start, n) ==
  /\ c \in Text
  /\ Len(c) <= n
  /\ start <= Len(text) => start + Len(c) <= Len(text)
  /\ start > Len(text) => c = <<>>
  /\ \A i \in 1 .. Len(c) : start + i \in 1 .. Len(text) /\ c[i] = text[start + i]
  /\ start <= Len(text) /\ n >= Len(text) - start => Len(c) = Len(text) - start
  /\ start + n <= Len(text) => Len(c) = n
LEMMA CutIs ==
  ASSUME NEW text \in Text, NEW start \in Nat, NEW n \in Nat
  PROVE  IsCut(CutOf(text, start, n), text, start, n)
<1> SUFFICES ASSUME NEW c, c = CutOf(text, start, n) PROVE IsCut(c, text, start, n)
  OBVIOUS
<1> DEFINE m == Least({n, Len(text) - start})
<1>1. Len(text) \in Nat
  BY InText
<1>2. m \in Int /\ m = IF n <= Len(text) - start THEN n ELSE Len(text) - start
  BY <1>1, LeastOfTwo
<1>3. c = [i \in 1 .. m |-> text[start + i]]
  BY DEF CutOf
<1> HIDE DEF m
<1>4. ASSUME NEW i \in 1 .. m PROVE start + i \in 1 .. Len(text) /\ text[start + i] \in Parts
  <2>1. start + i \in 1 .. Len(text)
    BY <1>1, <1>2
  <2> QED BY <2>1, InText
<1>5. CASE m \in Nat
  <2>1. c \in Text /\ Len(c) = m
    BY <1>3, <1>4, <1>5 DEF Text
  <2>2. start > Len(text) => m = 0
    BY <1>1, <1>2, <1>5
  <2>3. start > Len(text) => c = <<>>
    BY <2>1, <2>2 DEF Text
  <2>4. \A i \in 1 .. m : c[i] = text[start + i]
    BY <1>3
  <2>5. /\ m <= n
        /\ start <= Len(text) => start + m <= Len(text)
        /\ start <= Len(text) /\ n >= Len(text) - start => m = Len(text) - start
        /\ start + n <= Len(text) => m = n
    BY <1>1, <1>2
  <2> QED BY <1>4, <2>1, <2>3, <2>4, <2>5 DEF IsCut
<1>6. CASE m \notin Nat
  <2>1. 1 .. m = {} /\ start > Len(text)
    BY <1>1, <1>2, <1>6
  <2>2. c = <<>>
    BY <1>3, <2>1
  <2> QED BY <2>1, <2>2, <1>1 DEF Text, IsCut
<1> QED BY <1>5, <1>6

LEMMA CutType ==
  ASSUME NEW text \in Text, NEW start \in Nat, NEW n \in Nat
  PROVE  CutOf(text, start, n) \in Text
BY CutIs DEF IsCut

\* What is left of a text after its first parts.
After(s, l, t) ==
  /\ l \in 0 .. Len(s) /\ Len(t) = Len(s) - l
  /\ \A i \in 1 .. Len(t) : t[i] = s[l + i]
LEMMA TailIs ==
  ASSUME NEW text \in Text, NEW start \in Nat, start <= Len(text)
  PROVE  After(text, start, CutOf(text, start, Len(text)))
<1>1. PICK c : c = CutOf(text, start, Len(text))
  OBVIOUS
<1>2. Len(text) \in Nat /\ Len(text) >= Len(text) - start
  BY InText
<1>3. IsCut(c, text, start, Len(text))
  BY <1>1, <1>2, CutIs
<1>4. After(text, start, c)
  BY <1>2, <1>3 DEF IsCut, After
<1> QED BY <1>1, <1>4

\* Slice and Beyond are such cuts of the file.
LEMMA Cuts ==
  ASSUME NEW start, NEW n
  PROVE  Slice(start, n) = CutOf(file, start, n) /\ Beyond(start) = CutOf(file, start, Len(file))
BY DEF Slice, Beyond, CutOf

\* The newlines of a text.
LEMMA NewlinesIn ==
  ASSUME NEW text \in Text
  PROVE  Newlines(text) \subseteq 1 .. Len(text) /\ IsFiniteSet(Newlines(text))
<1>1. Newlines(text) \subseteq 1 .. Len(text)
  BY InText DEF Newlines
<1>2. IsFiniteSet(1 .. Len(text))
  BY InText, FS_Interval
<1> QED BY <1>1, <1>2, FS_Subset

\* Rest is what follows the last newline.
LEMMA RestIs ==
  ASSUME NEW text \in Text
  PROVE  \E l \in 0 .. Len(text) :
           /\ l = 0 \/ l \in Newlines(text)
           /\ \A j \in Newlines(text) : j <= l
           /\ Rest(text) \in Text /\ After(text, l, Rest(text))
<1> DEFINE ends == Newlines(text)
<1>1. ends \subseteq 1 .. Len(text) /\ Len(text) \in Nat
  BY NewlinesIn, InText
<1>2. CASE ends = {}
  <2>1. Rest(text) = text
    BY <1>2 DEF Rest
  <2> WITNESS 0 \in 0 .. Len(text)
  <2> QED BY <1>1, <1>2, <2>1 DEF After
<1>3. CASE ends # {}
  <2> DEFINE l == CHOOSE i \in ends : \A j \in ends : j <= i
  <2>1. \E i \in ends : \A j \in ends : j <= i
    <3> DEFINE back == {Len(text) - i : i \in ends}
    <3>1. back \subseteq Nat /\ back # {}
      BY <1>1, <1>3
    <3> HIDE DEF back
    <3>2. PICK b \in back : \A a \in back : b <= a
      BY <3>1, LeastOf
    <3>3. PICK i \in ends : b = Len(text) - i
      BY DEF back
    <3>4. ASSUME NEW j \in ends PROVE j <= i
      <4>1. Len(text) - j \in back
        BY DEF back
      <4>2. Len(text) - i <= Len(text) - j
        BY <3>2, <3>3, <4>1
      <4>3. i \in Nat /\ j \in Nat
        BY <1>1
      <4> QED BY <1>1, <4>2, <4>3
    <3> QED BY <3>4
  <2>2. l \in ends /\ \A j \in ends : j <= l
    BY <2>1
  <2>3. Rest(text) = SubSeq(text, l + 1, Len(text))
    BY <1>3 DEF Rest
  <2> HIDE DEF l
  <2>4. l \in 1 .. Len(text)
    BY <1>1, <2>2
  <2>5. /\ Rest(text) \in Text /\ Len(Rest(text)) = Len(text) - l
        /\ \A i \in 1 .. Len(text) - l : Rest(text)[i] = text[l + i]
    BY <1>1, <2>3, <2>4 DEF Text
  <2> QED BY <2>2, <2>4, <2>5 DEF After
<1> QED BY <1>2, <1>3

\* A line that begins at i ends at the next newline, and no two at the same one.
LEMMA StartIs ==
  ASSUME NEW text \in Text, NEW i \in Starts(text)
  PROVE  /\ i \in 1 .. Len(text) /\ Begins(text, i) /\ text[i][2] = First
         /\ \E j \in Newlines(text) : i < j
BY InText DEF Starts

LEMMA EndIs ==
  ASSUME NEW text \in Text, NEW i \in Starts(text)
  PROVE  /\ EndOf(text, i) \in Newlines(text) /\ EndOf(text, i) \in 1 .. Len(text)
         /\ i < EndOf(text, i)
         /\ \A j \in Newlines(text) : i < j => EndOf(text, i) <= j
<1> DEFINE S == {j \in Newlines(text) : i < j}
<1>1. S \subseteq Nat /\ S # {}
  BY StartIs, NewlinesIn
<1>2. EndOf(text, i) = Least(S)
  BY DEF EndOf
<1> HIDE DEF S
<1>3. Least(S) \in S /\ \A y \in S : Least(S) <= y
  BY <1>1, LeastIs
<1> QED BY <1>2, <1>3, NewlinesIn DEF S

LEMMA EndsInOrder ==
  ASSUME NEW text \in Text, NEW i \in Starts(text), NEW j \in Starts(text), i < j
  PROVE  EndOf(text, i) < EndOf(text, j)
<1>1. /\ i \in 1 .. Len(text) /\ j \in 1 .. Len(text) /\ text[i][2] = First /\ Begins(text, j)
      /\ Len(text) \in Nat
  BY StartIs, InText
<1>2. j - 1 \in Newlines(text)
  BY <1>1 DEF Begins
<1>3. i # j - 1
  BY <1>1, <1>2 DEF Newlines, First, EndOfLine
<1>4. i < j - 1
  BY <1>1, <1>3
<1>5. EndOf(text, i) <= j - 1 /\ j < EndOf(text, j)
  BY <1>2, <1>4, EndIs
<1>6. EndOf(text, i) \in 1 .. Len(text) /\ EndOf(text, j) \in 1 .. Len(text)
  BY EndIs
<1> QED BY <1>1, <1>5, <1>6

\* What has been read of a text: the lines that end in it, and once.
Ended(text) == {text[i][1] : i \in Newlines(text)}
EndsIn(evs) == {evs[i][2] : i \in DOMAIN evs}
OnceEnded(text) == \A i, j \in Newlines(text) : text[i][1] = text[j][1] => i = j
OnceIn(evs) == \A i, j \in DOMAIN evs : evs[i][2] = evs[j][2] => i = j

\* parseChunk yields an event of each line that begins and ends in the text.
EventAt(text, i) == <<text[i][1], text[EndOf(text, i)][1]>>
LEMMA ParseIs ==
  ASSUME NEW text \in Text
  PROVE  /\ Parse(text) \in Seq(LineEvents)
         /\ \A k \in DOMAIN Parse(text) :
              \E i \in Starts(text) : Parse(text)[k] = EventAt(text, i)
         /\ \A i \in Starts(text) :
              \E k \in DOMAIN Parse(text) : Parse(text)[k] = EventAt(text, i)
         /\ EndsIn(Parse(text)) \subseteq Ended(text)
         /\ OnceEnded(text) => OnceIn(Parse(text))
<1> DEFINE S == Starts(text)
           m == Cardinality(S)
           p == Parse(text)
<1>1. S \subseteq 1 .. Len(text) /\ Len(text) \in Nat
  BY StartIs, InText
<1>2. IsFiniteSet(S) /\ m \in Nat
  <2>1. IsFiniteSet(1 .. Len(text))
    BY <1>1, FS_Interval
  <2> QED BY <1>1, <2>1, FS_Subset, FS_CardinalityType
<1>3. p = [k \in 1 .. m |-> EventAt(text, Nth(k, S))]
  BY DEF Parse, EventAt
<1>4. ASSUME NEW i \in S
      PROVE  /\ EventAt(text, i) \in LineEvents
             /\ EventAt(text, i)[2] = text[EndOf(text, i)][1]
  <2>1. i \in 1 .. Len(text) /\ EndOf(text, i) \in 1 .. Len(text)
    BY StartIs, EndIs
  <2> QED BY <2>1, InText DEF EventAt, LineEvents
<1> HIDE DEF S, m, p
<1>5. /\ \A k \in 1 .. m : Nth(k, S) \in S
      /\ \A k, l \in 1 .. m : Nth(k, S) = Nth(l, S) => k = l
      /\ \A x \in S : \E k \in 1 .. m : Nth(k, S) = x
  BY <1>1, <1>2, NthIs DEF m
<1>6. p \in Seq(LineEvents) /\ DOMAIN p = 1 .. m
  BY <1>2, <1>3, <1>4, <1>5
<1>7. \A k \in 1 .. m : \E i \in S : p[k] = EventAt(text, i)
  BY <1>3, <1>5
<1>8. \A i \in S : \E k \in 1 .. m : p[k] = EventAt(text, i)
  BY <1>3, <1>5
<1>9. EndsIn(p) \subseteq Ended(text)
  <2>1. ASSUME NEW k \in 1 .. m PROVE p[k][2] \in Ended(text)
    <3>1. PICK i \in S : p[k] = EventAt(text, i)
      BY <1>7
    <3>2. EndOf(text, i) \in Newlines(text)
      BY EndIs DEF S
    <3> QED BY <1>4, <3>1, <3>2 DEF Ended
  <2> QED BY <1>6, <2>1 DEF EndsIn
<1>10. ASSUME OnceEnded(text) PROVE OnceIn(p)
  <2> SUFFICES ASSUME NEW k \in 1 .. m, NEW l \in 1 .. m, p[k][2] = p[l][2] PROVE k = l
    BY <1>6 DEF OnceIn
  <2> DEFINE i == Nth(k, S)
             j == Nth(l, S)
  <2>1. i \in S /\ j \in S /\ (i = j => k = l)
    BY <1>5
  <2>2. p[k] = EventAt(text, i) /\ p[l] = EventAt(text, j)
    BY <1>3
  <2> HIDE DEF i, j
  <2>3. text[EndOf(text, i)][1] = text[EndOf(text, j)][1]
    BY <1>4, <2>1, <2>2
  <2>4. EndOf(text, i) \in Newlines(text) /\ EndOf(text, j) \in Newlines(text)
    BY <2>1, EndIs DEF S
  <2>5. EndOf(text, i) = EndOf(text, j)
    BY <1>10, <2>3, <2>4 DEF OnceEnded
  <2>6. ~(i < j) /\ ~(j < i)
    <3>1. EndOf(text, i) \in Nat
      BY <2>1, EndIs DEF S
    <3> QED BY <2>1, <2>5, <3>1, EndsInOrder DEF S
  <2>7. i \in Nat /\ j \in Nat
    BY <1>1, <2>1
  <2> QED BY <2>1, <2>6, <2>7
<1> QED BY <1>6, <1>7, <1>8, <1>9, <1>10 DEF S, p

\* One text after another.
LEMMA JoinIs ==
  ASSUME NEW a \in Text, NEW b \in Text
  PROVE  /\ a \o b \in Text /\ Len(a \o b) = Len(a) + Len(b)
         /\ \A i \in 1 .. Len(a) : (a \o b)[i] = a[i]
         /\ \A i \in 1 .. Len(b) : (a \o b)[Len(a) + i] = b[i]
BY InText DEF Text

LEMMA JoinNewlines ==
  ASSUME NEW a \in Text, NEW b \in Text, NEW i \in 1 .. Len(a \o b)
  PROVE  /\ i <= Len(a) => (i \in Newlines(a \o b) <=> i \in Newlines(a))
         /\ i > Len(a) => /\ i - Len(a) \in 1 .. Len(b)
                          /\ (a \o b)[i] = b[i - Len(a)]
                          /\ (i \in Newlines(a \o b) <=> i - Len(a) \in Newlines(b))
<1>1. /\ a \o b \in Text /\ Len(a \o b) = Len(a) + Len(b)
      /\ Len(a) \in Nat /\ Len(b) \in Nat
  BY JoinIs, InText
<1>2. CASE i <= Len(a)
  <2>1. i \in 1 .. Len(a) /\ (a \o b)[i] = a[i]
    BY <1>1, <1>2, JoinIs
  <2> QED BY <1>1, <1>2, <2>1, InText DEF Newlines
<1>3. CASE i > Len(a)
  <2> DEFINE j == i - Len(a)
  <2>1. j \in 1 .. Len(b) /\ i = Len(a) + j
    BY <1>1, <1>3
  <2>2. (a \o b)[i] = b[j]
    BY <2>1, JoinIs
  <2> QED BY <1>1, <1>3, <2>1, <2>2, InText DEF Newlines
<1> QED BY <1>1, <1>2, <1>3

LEMMA JoinEnded ==
  ASSUME NEW a \in Text, NEW b \in Text, Newlines(a) = {}
  PROVE  /\ Ended(a \o b) = Ended(b)
         /\ OnceEnded(b) => OnceEnded(a \o b)
<1> DEFINE t == a \o b
<1>1. /\ t \in Text /\ Len(t) = Len(a) + Len(b) /\ Len(a) \in Nat /\ Len(b) \in Nat
  BY JoinIs, InText
<1> HIDE DEF t
<1>2. ASSUME NEW i \in Newlines(t)
      PROVE  i - Len(a) \in Newlines(b) /\ t[i] = b[i - Len(a)] /\ i \in 1 .. Len(t)
  <2>1. i \in 1 .. Len(t)
    BY <1>1, NewlinesIn
  <2> QED BY <1>1, <2>1, JoinNewlines DEF t
<1>3. ASSUME NEW j \in Newlines(b)
      PROVE  Len(a) + j \in Newlines(t) /\ t[Len(a) + j] = b[j]
  <2>1. j \in 1 .. Len(b)
    BY NewlinesIn
  <2>2. Len(a) + j \in 1 .. Len(t) /\ Len(a) + j > Len(a) /\ (Len(a) + j) - Len(a) = j
    BY <1>1, <2>1
  <2> QED BY <2>2, JoinNewlines DEF t
<1>4. Ended(t) = Ended(b)
  BY <1>2, <1>3 DEF Ended
<1>5. ASSUME OnceEnded(b) PROVE OnceEnded(t)
  <2> SUFFICES ASSUME NEW i \in Newlines(t), NEW j \in Newlines(t), t[i][1] = t[j][1]
               PROVE  i = j
    BY DEF OnceEnded
  <2>1. i - Len(a) = j - Len(a)
    BY <1>2, <1>5 DEF OnceEnded
  <2> QED BY <1>1, <1>2, <2>1
<1> QED BY <1>4, <1>5 DEF t

LEMMA LineIs ==
  ASSUME NEW n \in Lines
  PROVE  /\ LineOf(n) \in Text /\ Len(LineOf(n)) = 3
         /\ \A k \in 1 .. 3 : LineOf(n)[k] = <<n, k>>
         /\ Newlines(LineOf(n)) = {3}
<1>1. LineOf(n) \in Text /\ Len(LineOf(n)) = 3 /\ \A k \in 1 .. 3 : LineOf(n)[k] = <<n, k>>
  <2>1. \A k \in First .. EndOfLine : <<n, k>> \in Parts
    BY DEF Parts
  <2> QED BY <2>1 DEF LineOf, Text, First, EndOfLine
<1>2. Newlines(LineOf(n)) = {3}
  BY <1>1, InText DEF Newlines, EndOfLine
<1> QED BY <1>1, <1>2

-----------------------------------------------------------------------------
(* AccessLogTailer: types.                                                 *)

LEMMA TailerConstants ==
  MaxBytes \in Nat /\ BatchSize \in Nat /\ MaxLines \in Nat /\ MaxFaults \in Nat
BY TailerBounds

LEMMA OccurrencesType ==
  ASSUME collected \in Seq(LineEvents), NEW e
  PROVE  /\ Occurrences(e) \in Nat
         /\ Occurrences(e) > 0 <=> \E i \in DOMAIN collected : collected[i] = e
         /\ OnceIn(collected) => Occurrences(e) <= 1
<1> DEFINE S == {i \in DOMAIN collected : collected[i] = e}
<1>1. IsFiniteSet(S) /\ Occurrences(e) = Cardinality(S) /\ Cardinality(S) \in Nat
  <2>1. Len(collected) \in Nat /\ DOMAIN collected = 1 .. Len(collected)
    OBVIOUS
  <2>2. IsFiniteSet(DOMAIN collected)
    BY <2>1, FS_Interval
  <2>3. S \subseteq DOMAIN collected
    OBVIOUS
  <2> HIDE DEF S
  <2> QED BY <2>2, <2>3, FS_Subset, FS_CardinalityType DEF Occurrences, S
<1>2. Cardinality(S) > 0 <=> S # {}
  <2> HIDE DEF S
  <2>1. Cardinality(S) = 0 <=> S = {}
    BY <1>1, FS_EmptySet
  <2> QED BY <1>1, <2>1
<1>3. ASSUME OnceIn(collected) PROVE Cardinality(S) <= 1
  <2>1. CASE S = {}
    BY <2>1, FS_EmptySet
  <2>2. CASE S # {}
    <3>1. PICK i \in S : TRUE
      BY <2>2
    <3>2. S = {i}
      BY <1>3, <3>1 DEF OnceIn
    <3> HIDE DEF S
    <3>3. Cardinality(S) = 1
      BY <3>2, FS_Singleton
    <3> QED BY <3>3
  <2> QED BY <2>1, <2>2
<1> QED BY <1>1, <1>2, <1>3

LEMMA FaultType ==
  ASSUME TailerTypeOK, NEW kind, Fault(kind)
  PROVE  faults' \in 0 .. MaxFaults /\ harm' \in 0 .. faults' /\ (harm' = 0 => harm = 0)
BY TailerConstants DEF TailerTypeOK, Fault

LEMMA TailerTypeInit == TailerInit => TailerTypeOK
<1> SUFFICES ASSUME TailerInit PROVE TailerTypeOK
  OBVIOUS
<1>1. <<>> \in Seq(Parts) /\ <<>> \in Seq(LineEvents)
  OBVIOUS
<1>2. 0 \in 0 .. MaxLines /\ 0 \in 0 .. MaxFaults /\ 0 \in 0 .. 0
  BY TailerConstants
<1>3. metaOffset \in Nat \union {NoMeta} /\ recorded \in [LineEvents -> Nat] /\ step \in Steps
  BY DEF TailerInit, Steps
<1> QED BY <1>1, <1>2, <1>3 DEF TailerInit, TailerTypeOK

LEMMA ReadType == TailerTypeOK /\ (Read \/ ReadFails) => TailerTypeOK'
<1> SUFFICES ASSUME TailerTypeOK, Read \/ ReadFails PROVE TailerTypeOK'
  OBVIOUS
<1>0. file \in Text /\ partial \in Text /\ chunk \in Text
  BY DEF TailerTypeOK, Text
<1>1. CASE ReadTick
  <2>1. size' \in Nat
    BY <1>0, <1>1, InText DEF ReadTick
  <2> QED BY <1>1, <2>1
       DEF ReadTick, TailerTypeOK, dbVars, fieldVars, historyVars, Steps
<1>2. CASE InitOffset
  <2>1. dropped' \subseteq Lines
    <3>1. Slice(0, size) \in Text
      BY <1>0, Cuts, CutType DEF TailerTypeOK
    <3>2. LinesIn(Slice(0, size)) \subseteq Lines
      BY <3>1, InText DEF LinesIn, Range, Parts
    <3> QED BY <1>2, <3>2 DEF InitOffset, TailerTypeOK
  <2> QED BY <1>2, <2>1 DEF InitOffset, TailerTypeOK, dbVars, readVars, Steps
<1>3. CASE Open
  <2> DEFINE start == IF size < offset THEN 0 ELSE offset
  <2>1. start \in Nat
    BY DEF TailerTypeOK
  <2>2. Slice(start, MaxBytes + 1) \in Text
    BY <1>0, <2>1, TailerConstants, Cuts, CutType
  <2>3. chunk' \in Text
    BY <1>3, <2>2 DEF Open, Text
  <2>4. offset' \in Nat
    BY <1>3, <2>1, <2>3, InText DEF Open
  <2>5. chunk' \in Seq(Parts)
    BY <2>3 DEF Text
  <2>6. step' \in Steps /\ partial' \in Seq(Parts)
    BY <1>3 DEF Open, TailerTypeOK, Steps
  <2> QED BY <1>3, <2>4, <2>5, <2>6 DEF Open, TailerTypeOK, dbVars, historyVars
<1>4. CASE Truncate
  <2>1. Beyond(offset) \in Text
    <3>1. offset \in Nat /\ Len(file) \in Nat
      BY <1>0, InText DEF TailerTypeOK
    <3> QED BY <1>0, <3>1, Cuts, CutType
  <2>2. LinesIn(Beyond(offset)) \subseteq Lines
    BY <2>1, InText DEF LinesIn, Range, Parts
  <2> QED BY <1>4, <2>2 DEF Truncate, TailerTypeOK, dbVars, readVars, Steps
<1>5. CASE ResetMeta
  BY <1>5 DEF ResetMeta, TailerTypeOK, fieldVars, readVars, historyVars, Steps
<1>6. CASE Persist
  <2>1. partial \o chunk \in Text
    BY <1>0, JoinIs
  <2>2. partial' \in Text /\ parsed' \in Seq(LineEvents)
    BY <1>6, <2>1, RestIs, ParseIs DEF Persist
  <2> QED BY <1>6, <2>2 DEF Persist, TailerTypeOK, historyVars, Steps, Text
<1>7. CASE ReadFails
  <2>1. faults' \in 0 .. MaxFaults /\ harm' \in 0 .. faults'
    BY <1>7, FaultType DEF ReadFails
  <2> QED BY <1>7, <2>1 DEF ReadFails, TailerTypeOK, dbVars, fieldVars, Steps
<1>8. CASE AppendEvent
  <2>1. collected' \in Seq(LineEvents) /\ parsed' \in Seq(LineEvents)
    BY <1>8 DEF AppendEvent, TailerTypeOK
  <2> QED BY <1>8, <2>1
       DEF AppendEvent, TailerTypeOK, dbVars, fieldVars, historyVars, Steps
<1>9. CASE ReadDone
  BY <1>9 DEF ReadDone, TailerTypeOK, dbVars, fieldVars, readVars, historyVars, Steps
<1> QED BY <1>1, <1>2, <1>3, <1>4, <1>5, <1>6, <1>7, <1>8, <1>9 DEF Read

LEMMA FlushType == TailerTypeOK /\ (FlushBatch \/ FlushFails) => TailerTypeOK'
<1> SUFFICES ASSUME TailerTypeOK, FlushBatch \/ FlushFails PROVE TailerTypeOK'
  OBVIOUS
<1>1. CASE FlushBatch
  <2>1. \A e \in LineEvents : recorded[e] + Occurrences(e) \in Nat
    BY OccurrencesType DEF TailerTypeOK
  <2>2. recorded' \in [LineEvents -> Nat]
    BY <1>1, <2>1 DEF FlushBatch
  <2> QED BY <1>1, <2>2
       DEF FlushBatch, TailerTypeOK, fieldVars, readVars, historyVars, Resume, Steps
<1>2. CASE FlushFails
  <2>1. faults' \in 0 .. MaxFaults /\ harm' \in 0 .. faults'
    BY <1>2, FaultType DEF FlushFails
  <2> QED BY <1>2, <2>1
       DEF FlushFails, TailerTypeOK, dbVars, fieldVars, readVars, Resume, Steps
<1> QED BY <1>1, <1>2

LEMMA WorldType == TailerTypeOK /\ World => TailerTypeOK'
<1> SUFFICES ASSUME TailerTypeOK, World PROVE TailerTypeOK'
  OBVIOUS
<1>1. CASE XrayWrites
  <2>1. written + 1 \in Lines
    BY <1>1, TailerConstants DEF XrayWrites, TailerTypeOK, Lines
  <2>2. file \o LineOf(written + 1) \in Text
    BY <2>1, LineIs, JoinIs DEF TailerTypeOK, Text
  <2>3. file' \in Seq(Parts) /\ written' \in 0 .. MaxLines
    BY <1>1, <2>1, <2>2 DEF XrayWrites, Text, Lines
  <2> QED BY <1>1, <2>3
       DEF XrayWrites, TailerTypeOK, dbVars, fieldVars, readVars, historyVars
<1>2. CASE AgentStops
  <2>1. faults' \in 0 .. MaxFaults /\ harm' \in 0 .. faults'
    BY <1>2, FaultType DEF AgentStops
  <2>2. <<>> \in Seq(Parts) /\ <<>> \in Seq(LineEvents) /\ "select" \in Steps
    BY DEF Steps
  <2> QED BY <1>2, <2>1, <2>2 DEF AgentStops, TailerTypeOK, dbVars
<1>3. CASE LogLost
  <2>1. faults' \in 0 .. MaxFaults /\ harm' \in 0 .. faults'
    BY <1>3, FaultType DEF LogLost
  <2> QED BY <1>3, <2>1 DEF LogLost, TailerTypeOK, dbVars, fieldVars, readVars
<1> QED BY <1>1, <1>2, <1>3 DEF World

LEMMA TailerTypeStep == TailerTypeOK /\ [TailerNext]_tailerVars => TailerTypeOK'
<1>1. TailerTypeOK /\ UNCHANGED tailerVars => TailerTypeOK'
  BY DEF TailerTypeOK, tailerVars, dbVars, fieldVars, readVars, historyVars
<1> QED BY <1>1, ReadType, FlushType, WorldType DEF TailerNext

\* Types: the state of the tailer stays of the type that TailerTypeOK gives it,
\* for every file, batch size and set of faults.
THEOREM TailerTypeCorrect == TailerSpec => []TailerTypeOK
BY TailerTypeInit, TailerTypeStep, PTL DEF TailerSpec

-----------------------------------------------------------------------------
(* AccessLogTailer: nothing is read twice.                                 *)

\* The lines whose ends are on record, on record or under way to it, or read.
OnRecord == {e[2] : e \in {f \in LineEvents : recorded[f] > 0}}
Taken == OnRecord \union EndsIn(collected) \union EndsIn(parsed)
Seen == Taken \union Ended(chunk)

\* A line ends once on the whole way from the file to the record.
Distinct ==
  /\ NothingTwice
  /\ OnceIn(collected) /\ OnceIn(parsed) /\ OnceEnded(chunk)
  /\ OnRecord \intersect EndsIn(collected) = {}
  /\ (OnRecord \union EndsIn(collected)) \intersect EndsIn(parsed) = {}
  /\ Taken \intersect Ended(chunk) = {}
  /\ Newlines(partial) = {}

\* What Xray has written, each line once.
WrittenOnce ==
  /\ OnceEnded(file)
  /\ \A i \in DOMAIN file : file[i][1] <= written
  /\ \A n \in Seen : n <= written

\* Where the ends of those lines are, if the file still has them: what may be
\* on record lies before the stored offset, what was read before the offset of
\* the agent, and no offset is then past the end of the file.
InFile(S) == {p \in Newlines(file) : file[p][1] \in S}
Placed ==
  /\ \A p \in InFile(Taken) : /\ p <= metaOffset
                              /\ metaOffset <= Len(file)
                              /\ step = "init" => metaOffset <= size
  /\ initialized => \A p \in InFile(Seen) : /\ p <= offset
                                            /\ offset <= Len(file)
                                            /\ step = "open" => offset <= size
                                            /\ step # "reset_meta"
  /\ ~initialized => step \in {"select", "init"} /\ chunk = <<>>
  /\ step = "init" => ~initialized

OnceInv == TailerTypeOK /\ Distinct /\ WrittenOnce /\ Placed

LEMMA EndsOfAppend ==
  ASSUME NEW evs \in Seq(LineEvents), NEW e \in LineEvents
  PROVE  /\ EndsIn(Append(evs, e)) = EndsIn(evs) \union {e[2]}
         /\ OnceIn(evs) /\ e[2] \notin EndsIn(evs) => OnceIn(Append(evs, e))
<1> DEFINE a == Append(evs, e)
           n == Len(evs)
<1>1. /\ n \in Nat /\ DOMAIN evs = 1 .. n /\ DOMAIN a = 1 .. n + 1
      /\ \A i \in 1 .. n : a[i] = evs[i]
      /\ a[n + 1] = e
  OBVIOUS
<1> HIDE DEF a, n
<1>2. \A i \in 1 .. n + 1 : i \in 1 .. n \/ i = n + 1
  BY <1>1
<1>3. 1 .. n \subseteq 1 .. n + 1 /\ n + 1 \in 1 .. n + 1
  BY <1>1
<1>4. EndsIn(a) = EndsIn(evs) \union {e[2]}
  BY <1>1, <1>2, <1>3 DEF EndsIn
<1>5. ASSUME OnceIn(evs), e[2] \notin EndsIn(evs) PROVE OnceIn(a)
  <2>1. \A i \in 1 .. n : evs[i][2] # e[2]
    BY <1>1, <1>5 DEF EndsIn
  <2> QED BY <1>1, <1>2, <1>5, <2>1 DEF OnceIn
<1> QED BY <1>4, <1>5 DEF a

LEMMA EndsOfTail ==
  ASSUME NEW evs \in Seq(LineEvents), evs # <<>>
  PROVE  /\ EndsIn(evs) = EndsIn(Tail(evs)) \union {Head(evs)[2]}
         /\ OnceIn(evs) => OnceIn(Tail(evs)) /\ Head(evs)[2] \notin EndsIn(Tail(evs))
<1> DEFINE b == Tail(evs)
           n == Len(evs)
<1>1. /\ n \in Nat /\ n # 0 /\ DOMAIN evs = 1 .. n /\ DOMAIN b = 1 .. n - 1
      /\ \A i \in 1 .. n - 1 : b[i] = evs[i + 1]
      /\ Head(evs) = evs[1]
  OBVIOUS
<1> HIDE DEF b, n
<1>2. \A i \in 1 .. n : i = 1 \/ (i - 1 \in 1 .. n - 1 /\ evs[i] = b[i - 1])
  <2> SUFFICES ASSUME NEW i \in 1 .. n, i # 1 PROVE i - 1 \in 1 .. n - 1 /\ evs[i] = b[i - 1]
    OBVIOUS
  <2>1. i - 1 \in 1 .. n - 1 /\ (i - 1) + 1 = i
    BY <1>1
  <2> QED BY <1>1, <2>1
<1>3. \A i \in 1 .. n - 1 : i + 1 \in 1 .. n /\ i + 1 # 1
  BY <1>1
<1>4. 1 \in 1 .. n
  BY <1>1
<1>5. EndsIn(evs) = EndsIn(b) \union {Head(evs)[2]}
  <2>1. \A x : x \in EndsIn(evs) <=> \E i \in 1 .. n : x = evs[i][2]
    BY <1>1 DEF EndsIn
  <2>2. \A x : x \in EndsIn(b) <=> \E i \in 1 .. n - 1 : x = b[i][2]
    BY <1>1 DEF EndsIn
  <2>3. ASSUME NEW i \in 1 .. n PROVE evs[i][2] \in EndsIn(b) \union {Head(evs)[2]}
    BY <1>1, <1>2, <2>2
  <2>4. ASSUME NEW i \in 1 .. n - 1 PROVE b[i][2] \in EndsIn(evs)
    BY <1>1, <1>3, <2>1
  <2>5. Head(evs)[2] \in EndsIn(evs)
    BY <1>1, <1>4, <2>1
  <2> QED BY <2>1, <2>2, <2>3, <2>4, <2>5
<1>6. ASSUME OnceIn(evs) PROVE OnceIn(b) /\ Head(evs)[2] \notin EndsIn(b)
  <2>1. ASSUME NEW i \in 1 .. n - 1, NEW j \in 1 .. n - 1, b[i][2] = b[j][2] PROVE i = j
    <3>1. i + 1 = j + 1
      <4>1. i + 1 \in DOMAIN evs /\ j + 1 \in DOMAIN evs /\ evs[i + 1][2] = evs[j + 1][2]
        BY <1>1, <1>3, <2>1
      <4> QED BY <1>6, <4>1 DEF OnceIn
    <3> QED BY <3>1
  <2>2. \A i \in 1 .. n - 1 : b[i][2] # evs[1][2]
    BY <1>1, <1>3, <1>4, <1>6 DEF OnceIn
  <2> QED BY <1>1, <2>1, <2>2 DEF OnceIn, EndsIn
<1> QED BY <1>5, <1>6 DEF b

LEMMA NothingIn ==
  /\ EndsIn(<<>>) = {} /\ OnceIn(<<>>)
  /\ Newlines(<<>>) = {} /\ Ended(<<>>) = {} /\ OnceEnded(<<>>)
BY DEF EndsIn, OnceIn, Newlines, Ended, OnceEnded

\* Steps that move nothing: they change offsets and sizes alone.
StillVars == <<file, written, recorded, collected, parsed, chunk, partial>>
LEMMA StillKeeps ==
  ASSUME UNCHANGED StillVars
  PROVE  /\ Distinct => Distinct'
         /\ WrittenOnce => WrittenOnce'
         /\ InFile(Taken)' = InFile(Taken) /\ InFile(Seen)' = InFile(Seen)
BY DEF StillVars, Distinct, WrittenOnce, InFile, Taken, Seen, OnRecord, NothingTwice, LinesIn

LEMMA TickOnce == OnceInv /\ ReadTick => Distinct' /\ WrittenOnce' /\ Placed'
<1> SUFFICES ASSUME OnceInv, ReadTick PROVE Distinct' /\ WrittenOnce' /\ Placed'
  OBVIOUS
<1>1. UNCHANGED StillVars
  BY DEF ReadTick, StillVars, dbVars, fieldVars
<1>2. Placed'
  <2>1. InFile(Taken)' = InFile(Taken) /\ InFile(Seen)' = InFile(Seen)
    BY <1>1, StillKeeps
  <2>2. /\ UNCHANGED <<file, metaOffset, initialized, offset, chunk>>
        /\ size' = Len(file) /\ step' = IF initialized THEN "open" ELSE "init"
    BY DEF ReadTick, dbVars, fieldVars
  <2> QED BY <2>1, <2>2 DEF OnceInv, Placed
<1> QED BY <1>1, <1>2, StillKeeps DEF OnceInv

LEMMA InitOffsetOnce == OnceInv /\ InitOffset => Distinct' /\ WrittenOnce' /\ Placed'
<1> SUFFICES ASSUME OnceInv, InitOffset PROVE Distinct' /\ WrittenOnce' /\ Placed'
  OBVIOUS
<1>1. UNCHANGED StillVars
  BY DEF InitOffset, StillVars, dbVars, readVars
<1>2. InFile(Taken)' = InFile(Taken) /\ InFile(Seen)' = InFile(Seen)
  BY <1>1, StillKeeps
<1>3. chunk = <<>> /\ step = "init"
  BY DEF InitOffset, OnceInv, Placed
<1>4. InFile(Seen) = InFile(Taken)
  BY <1>3, NothingIn DEF Seen, InFile
<1>5. ASSUME NEW p \in InFile(Taken)
      PROVE  /\ p <= metaOffset /\ metaOffset <= Len(file)
             /\ offset' = metaOffset /\ offset' <= size
  <2>1. p \in Nat /\ metaOffset \in Int /\ size \in Nat
    <3>1. file \in Text
      BY DEF OnceInv, TailerTypeOK, Text
    <3>2. p \in Newlines(file)
      BY DEF InFile
    <3>3. p \in Nat
      BY <3>1, <3>2, NewlinesIn
    <3> QED BY <3>3 DEF OnceInv, TailerTypeOK, NoMeta
  <2>2. p <= metaOffset /\ metaOffset <= Len(file) /\ metaOffset <= size
    BY <1>3 DEF OnceInv, Placed
  <2>3. metaOffset \in 0 .. size
    BY <2>1, <2>2
  <2>4. offset' = metaOffset
    BY <2>3 DEF InitOffset
  <2> QED BY <2>2, <2>4
<1>6. Placed'
  <2>1. /\ UNCHANGED <<file, metaOffset, size, chunk>>
        /\ initialized' = TRUE /\ step' = "open"
    BY DEF InitOffset, dbVars, readVars
  <2> QED BY <1>2, <1>4, <1>5, <2>1 DEF Placed
<1> QED BY <1>1, <1>6, StillKeeps DEF OnceInv

LEMMA ResetMetaOnce == OnceInv /\ ResetMeta => Distinct' /\ WrittenOnce' /\ Placed'
<1> SUFFICES ASSUME OnceInv, ResetMeta PROVE Distinct' /\ WrittenOnce' /\ Placed'
  OBVIOUS
<1>1. UNCHANGED StillVars
  BY DEF ResetMeta, StillVars, fieldVars, readVars
<1>2. InFile(Taken)' = InFile(Taken) /\ InFile(Seen)' = InFile(Seen)
  BY <1>1, StillKeeps
<1>3. initialized /\ InFile(Seen) = {} /\ InFile(Taken) = {}
  BY DEF OnceInv, Placed, ResetMeta, InFile, Seen
<1>4. Placed'
  <2>1. initialized' = initialized /\ chunk' = chunk /\ step' \in {"select", "persist"}
    BY DEF ResetMeta, fieldVars, readVars
  <2> QED BY <1>2, <1>3, <2>1 DEF Placed
<1> QED BY <1>1, <1>4, StillKeeps DEF OnceInv

LEMMA PauseOnce ==
  OnceInv /\ (ReadDone \/ FlushFails \/ UNCHANGED tailerVars) => Distinct' /\ WrittenOnce' /\ Placed'
<1> SUFFICES ASSUME OnceInv, ReadDone \/ FlushFails \/ UNCHANGED tailerVars
             PROVE  Distinct' /\ WrittenOnce' /\ Placed'
  OBVIOUS
<1>1. UNCHANGED StillVars /\ UNCHANGED <<metaOffset, initialized, offset, size>>
  BY DEF ReadDone, FlushFails, tailerVars, StillVars, dbVars, fieldVars, readVars
<1>2. InFile(Taken)' = InFile(Taken) /\ InFile(Seen)' = InFile(Seen)
  BY <1>1, StillKeeps
<1>3. step' = step \/ (step' \in {"select", "append"} /\ step \in {"select", "append", "flush"})
  BY DEF ReadDone, FlushFails, tailerVars, Resume
<1>4. step' \in {"append"} => step \in {"append", "flush"}
  BY DEF ReadDone, FlushFails, tailerVars, Resume
<1>5. Placed'
  BY <1>1, <1>2, <1>3, <1>4 DEF OnceInv, Placed, StillVars
<1> QED BY <1>1, <1>5, StillKeeps DEF OnceInv

LEMMA ReadFailsOnce == OnceInv /\ ReadFails => Distinct' /\ WrittenOnce' /\ Placed'
<1> SUFFICES ASSUME OnceInv, ReadFails PROVE Distinct' /\ WrittenOnce' /\ Placed'
  OBVIOUS
<1>1. /\ UNCHANGED <<file, written, recorded, collected, parsed, partial>>
      /\ UNCHANGED <<metaOffset, initialized, offset, size>>
      /\ chunk' = <<>> /\ step' = "select"
  BY DEF ReadFails, dbVars, fieldVars
<1>2. OnRecord' = OnRecord /\ Taken' = Taken /\ Seen' = Taken /\ Ended(chunk') = {}
  BY <1>1, NothingIn DEF OnRecord, Taken, Seen
<1>3. Distinct' /\ WrittenOnce'
  BY <1>1, <1>2, NothingIn DEF OnceInv, Distinct, WrittenOnce, NothingTwice, Seen
<1>4. InFile(Taken)' = InFile(Taken) /\ InFile(Seen)' \subseteq InFile(Seen)
  BY <1>1, <1>2 DEF InFile, Seen
<1>5. Placed'
  BY <1>1, <1>4 DEF OnceInv, Placed
<1> QED BY <1>3, <1>5

\* Open reads parts of the file that nothing was read of.
LEMMA OpenReads ==
  ASSUME TailerTypeOK, Open
  PROVE  \E start \in Nat :
           /\ start = IF size < offset THEN 0 ELSE offset
           /\ chunk' \in Text /\ offset' = start + Len(chunk')
           /\ \A i \in 1 .. Len(chunk') :
                start + i \in 1 .. Len(file) /\ chunk'[i] = file[start + i]
           /\ start <= Len(file) => offset' <= Len(file)
<1> DEFINE start == IF size < offset THEN 0 ELSE offset
<1>1. start \in Nat
  BY DEF TailerTypeOK
<1>2. file \in Text /\ Len(file) \in Nat
  BY InText DEF TailerTypeOK, Text
<1>3. /\ chunk' = <<>> \/ chunk' = CutOf(file, start, MaxBytes + 1)
      /\ offset' = start + Len(chunk')
  BY Cuts DEF Open
<1> HIDE DEF start
<1>4. CASE chunk' = <<>>
  <2>1. chunk' \in Text /\ Len(chunk') = 0
    BY <1>4 DEF Text
  <2> QED BY <1>1, <1>3, <2>1 DEF start
<1>5. CASE chunk' = CutOf(file, start, MaxBytes + 1)
  <2> DEFINE n == MaxBytes + 1
  <2>1. n \in Nat /\ chunk' = CutOf(file, start, n)
    BY <1>5, TailerConstants
  <2> HIDE DEF n
  <2>2. PICK c : c = chunk'
    OBVIOUS
  <2>3. IsCut(c, file, start, n)
    BY <1>1, <1>2, <2>1, <2>2, CutIs
  <2> QED BY <1>1, <1>3, <2>2, <2>3 DEF start, IsCut
<1> QED BY <1>3, <1>4, <1>5

LEMMA OpenOnce == OnceInv /\ Open => Distinct' /\ WrittenOnce' /\ Placed'
<1> SUFFICES ASSUME OnceInv, Open PROVE Distinct' /\ WrittenOnce' /\ Placed'
  OBVIOUS
<1>1. PICK start \in Nat :
           /\ start = IF size < offset THEN 0 ELSE offset
           /\ chunk' \in Text /\ offset' = start + Len(chunk')
           /\ \A i \in 1 .. Len(chunk') :
                start + i \in 1 .. Len(file) /\ chunk'[i] = file[start + i]
           /\ start <= Len(file) => offset' <= Len(file)
  BY OpenReads DEF OnceInv
<1>2. /\ UNCHANGED <<file, written, recorded, collected, parsed, metaOffset, initialized, size>>
      /\ partial' = partial \/ partial' = <<>>
      /\ step = "open" /\ step' \in {"truncate", "select", "persist"}
  BY DEF Open, dbVars, historyVars
<1>3. file \in Text /\ Len(file) \in Nat /\ Len(chunk') \in Nat /\ offset \in Nat /\ size \in Nat
  BY <1>1, InText DEF OnceInv, TailerTypeOK, Text
<1>4. OnRecord' = OnRecord /\ Taken' = Taken /\ Seen' = Taken \union Ended(chunk')
  BY <1>2 DEF OnRecord, Taken, Seen
<1>5. initialized
  BY <1>2 DEF OnceInv, Placed
<1>6. ASSUME NEW p \in InFile(Seen) PROVE p <= start /\ start = offset /\ offset <= Len(file)
  <2>1. p <= offset /\ offset <= Len(file) /\ offset <= size
    BY <1>2, <1>5 DEF OnceInv, Placed
  <2> QED BY <1>1, <1>3, <2>1
<1>7. ASSUME NEW i \in Newlines(chunk')
      PROVE  /\ i \in 1 .. Len(chunk') /\ start + i \in Newlines(file)
             /\ chunk'[i] = file[start + i]
  <2>1. i \in 1 .. Len(chunk')
    BY <1>1, NewlinesIn
  <2>2. start + i \in 1 .. Len(file) /\ chunk'[i] = file[start + i] /\ chunk'[i][2] = EndOfLine
    BY <1>1, <2>1 DEF Newlines
  <2> QED BY <1>3, <2>1, <2>2, InText DEF Newlines
<1>8. OnceEnded(chunk')
  <2> SUFFICES ASSUME NEW i \in Newlines(chunk'), NEW j \in Newlines(chunk'),
                      chunk'[i][1] = chunk'[j][1]
               PROVE  i = j
    BY DEF OnceEnded
  <2>1. start + i = start + j
    <3>1. /\ start + i \in Newlines(file) /\ start + j \in Newlines(file)
          /\ file[start + i][1] = file[start + j][1]
      BY <1>7
    <3>2. OnceEnded(file)
      BY DEF OnceInv, WrittenOnce
    <3> QED BY <3>1, <3>2 DEF OnceEnded
  <2>2. i \in Nat /\ j \in Nat
    BY <1>3, <1>7
  <2> QED BY <2>1, <2>2
<1>9. Taken \intersect Ended(chunk') = {}
  <2> SUFFICES ASSUME NEW i \in Newlines(chunk'), chunk'[i][1] \in Taken PROVE FALSE
    BY DEF Ended
  <2>1. start + i \in InFile(Seen)
    BY <1>7 DEF InFile, Seen
  <2>2. start + i <= start /\ i \in 1 .. Len(chunk')
    BY <1>6, <1>7, <2>1
  <2> QED BY <1>3, <2>2
<1>10. Distinct'
  <2>1. Newlines(partial') = {}
    BY <1>2, NothingIn DEF OnceInv, Distinct
  <2> QED BY <1>2, <1>4, <1>8, <1>9, <2>1 DEF OnceInv, Distinct, NothingTwice
<1>11. WrittenOnce'
  <2>1. ASSUME NEW n \in Ended(chunk') PROVE n <= written
    <3>1. PICK i \in Newlines(chunk') : n = chunk'[i][1]
      BY DEF Ended
    <3>2. start + i \in DOMAIN file /\ n = file[start + i][1]
      BY <1>7, <3>1 DEF Newlines
    <3> QED BY <3>2 DEF OnceInv, WrittenOnce
  <2>2. \A n \in Seen' : n <= written'
    BY <1>2, <1>4, <2>1 DEF OnceInv, WrittenOnce, Seen
  <2> QED BY <1>2, <2>2 DEF OnceInv, WrittenOnce
<1>12. ASSUME NEW p \in InFile(Seen)' PROVE p <= offset' /\ offset' <= Len(file)
  <2>0. p \in Newlines(file) /\ p \in Nat
    BY <1>2, <1>3, NewlinesIn DEF InFile
  <2>1. CASE file[p][1] \in Taken
    <3>1. p \in InFile(Seen)
      BY <2>0, <2>1 DEF InFile, Seen
    <3>2. p <= start /\ start <= Len(file)
      BY <1>6, <3>1
    <3> QED BY <1>1, <1>3, <2>0, <3>2
  <2>2. CASE file[p][1] \in Ended(chunk')
    <3>1. PICK i \in Newlines(chunk') : file[p][1] = chunk'[i][1]
      BY <2>2 DEF Ended
    <3>2. p = start + i
      BY <1>7, <2>0, <3>1 DEF OnceInv, WrittenOnce, OnceEnded
    <3>3. i \in 1 .. Len(chunk') /\ start + i \in 1 .. Len(file)
      BY <1>3, <1>7, NewlinesIn
    <3>4. start <= Len(file)
      BY <1>3, <3>3
    <3> QED BY <1>1, <1>3, <3>2, <3>3, <3>4
  <2> QED BY <1>2, <1>4, <2>1, <2>2 DEF InFile
<1>13. InFile(Taken)' = InFile(Taken)
  BY <1>2, <1>4 DEF InFile
<1>14. Placed'
  BY <1>2, <1>5, <1>12, <1>13 DEF OnceInv, Placed
<1> QED BY <1>10, <1>11, <1>14

\* A file that is emptied holds nothing that was read.
LEMMA EmptyPlaced ==
  ASSUME file' = <<>>, initialized' = initialized, OnceInv,
         ~initialized => step' = step /\ chunk' = chunk, step' = "init" => step = "init"
  PROVE  Placed'
<1>1. InFile(Taken)' = {} /\ InFile(Seen)' = {}
  BY NothingIn DEF InFile
<1> QED BY <1>1 DEF OnceInv, Placed

LEMMA EmptyWritten == file' = <<>> => OnceEnded(file') /\ DOMAIN file' = {}
BY NothingIn

LEMMA TruncateOnce == OnceInv /\ Truncate => Distinct' /\ WrittenOnce' /\ Placed'
<1> SUFFICES ASSUME OnceInv, Truncate PROVE Distinct' /\ WrittenOnce' /\ Placed'
  OBVIOUS
<1>1. /\ UNCHANGED <<written, recorded, collected, parsed, chunk, initialized>>
      /\ file' = <<>> /\ partial' = <<>> /\ step = "truncate" /\ step' = "reset_meta"
  BY DEF Truncate, dbVars, readVars
<1>2. OnRecord' = OnRecord /\ Taken' = Taken /\ Seen' = Seen
  BY <1>1 DEF OnRecord, Taken, Seen
<1>3. Distinct'
  BY <1>1, <1>2, NothingIn DEF OnceInv, Distinct, NothingTwice
<1>4. WrittenOnce'
  BY <1>1, <1>2, EmptyWritten DEF OnceInv, WrittenOnce
<1>5. initialized
  BY <1>1 DEF OnceInv, Placed
<1> QED BY <1>1, <1>3, <1>4, <1>5, EmptyPlaced

LEMMA LogLostOnce == OnceInv /\ LogLost => Distinct' /\ WrittenOnce' /\ Placed'
<1> SUFFICES ASSUME OnceInv, LogLost PROVE Distinct' /\ WrittenOnce' /\ Placed'
  OBVIOUS
<1>1. /\ UNCHANGED <<written, recorded, collected, parsed, chunk, partial, initialized, step>>
      /\ file' = <<>>
  BY DEF LogLost, dbVars, readVars, fieldVars
<1>2. OnRecord' = OnRecord /\ Taken' = Taken /\ Seen' = Seen
  BY <1>1 DEF OnRecord, Taken, Seen
<1>3. Distinct'
  BY <1>1, <1>2 DEF OnceInv, Distinct, NothingTwice
<1>4. WrittenOnce'
  BY <1>1, <1>2, EmptyWritten DEF OnceInv, WrittenOnce
<1> QED BY <1>1, <1>3, <1>4, EmptyPlaced

LEMMA AgentStopsOnce == OnceInv /\ AgentStops => Distinct' /\ WrittenOnce' /\ Placed'
<1> SUFFICES ASSUME OnceInv, AgentStops PROVE Distinct' /\ WrittenOnce' /\ Placed'
  OBVIOUS
<1>1. /\ UNCHANGED <<file, written, recorded, metaOffset>>
      /\ chunk' = <<>> /\ parsed' = <<>> /\ collected' = <<>> /\ partial' = <<>>
      /\ step' = "select" /\ initialized' = FALSE
  BY DEF AgentStops, dbVars
<1>2. OnRecord' = OnRecord /\ Taken' = OnRecord /\ Seen' = OnRecord
  BY <1>1, NothingIn DEF OnRecord, Taken, Seen
<1>3. Distinct'
  BY <1>1, <1>2, NothingIn DEF OnceInv, Distinct, NothingTwice
<1>4. WrittenOnce'
  BY <1>1, <1>2 DEF OnceInv, WrittenOnce, Seen, Taken
<1>5. InFile(Taken)' \subseteq InFile(Taken)
  BY <1>1, <1>2 DEF InFile, Taken
<1>6. Placed'
  BY <1>1, <1>5 DEF OnceInv, Placed
<1> QED BY <1>3, <1>4, <1>6

\* What is parsed of a chunk ends in the chunk; the stored offset is past it.
LEMMA PersistOnce == OnceInv /\ Persist => Distinct' /\ WrittenOnce' /\ Placed'
<1> SUFFICES ASSUME OnceInv, Persist PROVE Distinct' /\ WrittenOnce' /\ Placed'
  OBVIOUS
<1> DEFINE text == partial \o chunk
<1>1. /\ UNCHANGED <<file, written, recorded, collected, initialized, offset, size>>
      /\ metaOffset' = offset /\ chunk' = <<>>
      /\ parsed' = Parse(text) /\ partial' = Rest(text)
      /\ step = "persist" /\ step' = "append"
  BY DEF Persist, historyVars
<1>2. partial \in Text /\ chunk \in Text /\ text \in Text
  BY JoinIs DEF OnceInv, TailerTypeOK, Text
<1>3. Ended(text) = Ended(chunk) /\ OnceEnded(text)
  BY <1>2, JoinEnded DEF OnceInv, Distinct
<1> HIDE DEF text
<1>4. EndsIn(parsed') \subseteq Ended(chunk) /\ OnceIn(parsed')
  BY <1>1, <1>2, <1>3, ParseIs
<1>5. Newlines(partial') = {}
  <2>0. PICK l \in 0 .. Len(text) :
           /\ \A j \in Newlines(text) : j <= l
           /\ Rest(text) \in Text /\ After(text, l, Rest(text))
    BY <1>2, RestIs
  <2>1. /\ \A j \in Newlines(text) : j <= l
        /\ Rest(text) \in Text /\ Len(Rest(text)) = Len(text) - l
        /\ \A i \in 1 .. Len(Rest(text)) : Rest(text)[i] = text[l + i]
    BY <2>0 DEF After
  <2> SUFFICES ASSUME NEW i \in Newlines(Rest(text)) PROVE FALSE
    BY <1>1
  <2>2. i \in 1 .. Len(text) - l /\ Rest(text)[i][2] = EndOfLine /\ Len(text) \in Nat
    BY <1>2, <2>1, NewlinesIn, InText DEF Newlines
  <2>3. l + i \in 1 .. Len(text) /\ text[l + i][2] = EndOfLine /\ ~(l + i <= l)
    BY <2>1, <2>2
  <2>4. l + i \in Newlines(text)
    BY <1>2, <2>3, InText DEF Newlines
  <2> QED BY <2>1, <2>3, <2>4
<1>6. /\ OnRecord' = OnRecord /\ Taken' \subseteq Seen /\ Seen' = Taken'
      /\ Taken' = OnRecord \union EndsIn(collected) \union EndsIn(parsed')
  BY <1>1, <1>4, NothingIn DEF OnRecord, Taken, Seen
<1>7. Distinct'
  <2>1. (OnRecord \union EndsIn(collected)) \intersect EndsIn(parsed') = {}
    BY <1>4 DEF OnceInv, Distinct, Taken
  <2> QED BY <1>1, <1>4, <1>5, <1>6, <2>1, NothingIn DEF OnceInv, Distinct, NothingTwice
<1>8. WrittenOnce'
  BY <1>1, <1>6 DEF OnceInv, WrittenOnce
<1>9. initialized
  BY <1>1 DEF OnceInv, Placed
<1>10. InFile(Taken)' \subseteq InFile(Seen) /\ InFile(Seen)' = InFile(Taken)'
  BY <1>1, <1>6 DEF InFile
<1>11. Placed'
  BY <1>1, <1>9, <1>10 DEF OnceInv, Placed
<1> QED BY <1>7, <1>8, <1>11

LEMMA AppendOnce == OnceInv /\ AppendEvent => Distinct' /\ WrittenOnce' /\ Placed'
<1> SUFFICES ASSUME OnceInv, AppendEvent PROVE Distinct' /\ WrittenOnce' /\ Placed'
  OBVIOUS
<1> DEFINE e == Head(parsed)
<1>1. /\ UNCHANGED <<file, written, recorded, metaOffset, initialized, offset, size, chunk, partial>>
      /\ collected' = Append(collected, e) /\ parsed' = Tail(parsed) /\ parsed # <<>>
      /\ step = "append" /\ step' \in {"flush", "append"}
  BY DEF AppendEvent, dbVars, fieldVars
<1>2. collected \in Seq(LineEvents) /\ parsed \in Seq(LineEvents) /\ e \in LineEvents
  BY <1>1 DEF OnceInv, TailerTypeOK
<1>3. /\ EndsIn(parsed) = EndsIn(parsed') \union {e[2]}
      /\ OnceIn(parsed') /\ e[2] \notin EndsIn(parsed')
  BY <1>1, <1>2, EndsOfTail DEF OnceInv, Distinct
<1> HIDE DEF e
<1>4. EndsIn(collected') = EndsIn(collected) \union {e[2]} /\ OnceIn(collected')
  BY <1>1, <1>2, <1>3, EndsOfAppend DEF OnceInv, Distinct
<1>5. OnRecord' = OnRecord /\ Taken' = Taken /\ Seen' = Seen
  BY <1>1, <1>3, <1>4 DEF OnRecord, Taken, Seen
<1>6. Distinct'
  BY <1>1, <1>3, <1>4, <1>5 DEF OnceInv, Distinct, NothingTwice
<1>7. WrittenOnce'
  BY <1>1, <1>5 DEF OnceInv, WrittenOnce
<1>8. InFile(Taken)' = InFile(Taken) /\ InFile(Seen)' = InFile(Seen)
  BY <1>1, <1>5 DEF InFile
<1>9. Placed'
  BY <1>1, <1>8 DEF OnceInv, Placed
<1> QED BY <1>6, <1>7, <1>9

LEMMA FlushOnce == OnceInv /\ FlushBatch => Distinct' /\ WrittenOnce' /\ Placed'
<1> SUFFICES ASSUME OnceInv, FlushBatch PROVE Distinct' /\ WrittenOnce' /\ Placed'
  OBVIOUS
<1>1. /\ UNCHANGED <<file, written, metaOffset, initialized, offset, size, chunk, partial, parsed>>
      /\ collected' = <<>> /\ recorded' = [e \in LineEvents |-> recorded[e] + Occurrences(e)]
      /\ step \in {"select", "flush"} /\ step' \in {"select", "append"}
      /\ step' = "append" => step = "flush"
  BY DEF FlushBatch, fieldVars, readVars, historyVars, Resume
<1>2. ASSUME NEW e \in LineEvents
      PROVE  /\ recorded[e] \in Nat /\ Occurrences(e) \in Nat
             /\ recorded'[e] = recorded[e] + Occurrences(e)
             /\ recorded[e] > 0 => e[2] \in OnRecord
             /\ Occurrences(e) > 0 <=> \E i \in DOMAIN collected : collected[i] = e
             /\ Occurrences(e) > 0 => e[2] \in EndsIn(collected)
             /\ Occurrences(e) <= 1
  <2>1. /\ Occurrences(e) \in Nat /\ Occurrences(e) <= 1
        /\ Occurrences(e) > 0 <=> \E i \in DOMAIN collected : collected[i] = e
    BY OccurrencesType DEF OnceInv, TailerTypeOK, Distinct
  <2>2. Occurrences(e) > 0 => e[2] \in EndsIn(collected)
    BY <2>1 DEF EndsIn
  <2> QED BY <1>1, <2>1, <2>2 DEF OnceInv, TailerTypeOK, OnRecord
<1>3. OnRecord' = OnRecord \union EndsIn(collected)
  <2>1. ASSUME NEW e \in LineEvents
        PROVE  recorded'[e] > 0 <=> recorded[e] > 0 \/ Occurrences(e) > 0
    BY <1>2
  <2>2. ASSUME NEW i \in DOMAIN collected
        PROVE  collected[i] \in LineEvents /\ Occurrences(collected[i]) > 0
    <3>1. collected[i] \in LineEvents
      BY DEF OnceInv, TailerTypeOK
    <3> QED BY <1>2, <3>1
  <2>3. OnRecord' \subseteq OnRecord \union EndsIn(collected)
    BY <1>2, <2>1 DEF OnRecord
  <2>4. EndsIn(collected) \subseteq OnRecord'
    BY <2>1, <2>2 DEF OnRecord, EndsIn
  <2>5. OnRecord \subseteq OnRecord'
    BY <2>1 DEF OnRecord
  <2> QED BY <2>3, <2>4, <2>5
<1>4. NothingTwice'
  <2>1. ASSUME NEW e \in LineEvents PROVE recorded'[e] <= 1
    <3>1. recorded[e] <= 1 /\ ~(recorded[e] > 0 /\ Occurrences(e) > 0)
      BY <1>2 DEF OnceInv, Distinct, NothingTwice
    <3> QED BY <1>2, <3>1
  <2>2. ASSUME NEW e \in LineEvents, NEW f \in LineEvents,
               e[2] = f[2], recorded'[e] > 0, recorded'[f] > 0
        PROVE  e = f
    <3>1. /\ recorded[e] > 0 \/ Occurrences(e) > 0
          /\ recorded[f] > 0 \/ Occurrences(f) > 0
      BY <1>2, <2>2
    <3>2. CASE recorded[e] > 0 /\ recorded[f] > 0
      BY <2>2, <3>2 DEF OnceInv, Distinct, NothingTwice
    <3>3. CASE Occurrences(e) > 0 /\ Occurrences(f) > 0
      BY <1>2, <2>2, <3>3 DEF OnceInv, Distinct, OnceIn
    <3>4. ~(recorded[e] > 0 /\ Occurrences(f) > 0) /\ ~(recorded[f] > 0 /\ Occurrences(e) > 0)
      BY <1>2, <2>2 DEF OnceInv, Distinct
    <3> QED BY <3>1, <3>2, <3>3, <3>4
  <2> QED BY <2>1, <2>2 DEF NothingTwice
<1>5. Taken' = Taken /\ Seen' = Seen
  BY <1>1, <1>3, NothingIn DEF Taken, Seen
<1>6. Distinct'
  BY <1>1, <1>3, <1>4, <1>5, NothingIn DEF OnceInv, Distinct
<1>7. WrittenOnce'
  BY <1>1, <1>5 DEF OnceInv, WrittenOnce
<1>8. InFile(Taken)' = InFile(Taken) /\ InFile(Seen)' = InFile(Seen)
  BY <1>1, <1>5 DEF InFile
<1>9. Placed'
  BY <1>1, <1>8 DEF OnceInv, Placed
<1> QED BY <1>6, <1>7, <1>9

LEMMA XrayOnce == OnceInv /\ XrayWrites => Distinct' /\ WrittenOnce' /\ Placed'
<1> SUFFICES ASSUME OnceInv, XrayWrites PROVE Distinct' /\ WrittenOnce' /\ Placed'
  OBVIOUS
<1> DEFINE n == written + 1
           m == Len(file)
<1>1. /\ UNCHANGED <<recorded, metaOffset, step, initialized, offset, partial, size>>
      /\ UNCHANGED <<chunk, parsed, collected>>
      /\ file' = file \o LineOf(n) /\ written' = n
  BY DEF XrayWrites, dbVars, fieldVars, readVars
<1>2. n \in Lines /\ written \in Nat
  BY TailerConstants DEF XrayWrites, OnceInv, TailerTypeOK, Lines
<1>3. file \in Text /\ m \in Nat
  BY InText DEF OnceInv, TailerTypeOK, Text
<1>4. /\ file' \in Text /\ Len(file') = m + 3
      /\ \A i \in 1 .. m : file'[i] = file[i]
      /\ \A k \in 1 .. 3 : file'[m + k] = <<n, k>>
  <2> DEFINE l == LineOf(n)
  <2>1. l \in Text /\ Len(l) = 3 /\ \A k \in 1 .. 3 : l[k] = <<n, k>>
    BY <1>2, LineIs
  <2>2. file' = file \o l
    BY <1>1
  <2> HIDE DEF l, n
  <2>3. /\ file' \in Text /\ Len(file') = m + Len(l)
        /\ \A i \in 1 .. m : file'[i] = file[i]
        /\ \A k \in 1 .. Len(l) : file'[m + k] = l[k]
    BY <1>3, <2>1, <2>2, JoinIs
  <2> QED BY <2>1, <2>3
<1> HIDE DEF m
<1>5. ASSUME NEW i \in 1 .. m + 3
      PROVE  (i \in 1 .. m /\ file'[i] = file[i]) \/ (i > m /\ file'[i][1] = n)
  <2>1. CASE i <= m
    BY <1>3, <1>4, <2>1
  <2>2. CASE i > m
    <3>1. i - m \in 1 .. 3 /\ i = m + (i - m)
      BY <1>3, <2>2
    <3>2. file'[i] = <<n, i - m>>
      BY <1>4, <3>1
    <3> QED BY <2>2, <3>2
  <2> QED BY <1>3, <2>1, <2>2
<1>6. ASSUME NEW p \in Newlines(file')
      PROVE  (p \in Newlines(file) /\ file'[p] = file[p]) \/ (p = m + 3 /\ file'[p][1] = n)
  <2>1. p \in 1 .. m + 3 /\ file'[p][2] = EndOfLine
    BY <1>4, NewlinesIn DEF Newlines
  <2>2. CASE p \in 1 .. m /\ file'[p] = file[p]
    BY <1>3, <2>1, <2>2, InText DEF Newlines, m
  <2>3. CASE p > m
    <3>1. p - m \in 1 .. 3 /\ p = m + (p - m)
      BY <1>3, <2>1, <2>3
    <3>2. file'[p] = <<n, p - m>>
      BY <1>4, <3>1
    <3>3. p - m = 3
      BY <2>1, <3>2 DEF EndOfLine
    <3> QED BY <1>3, <2>1, <3>2, <3>3
  <2> QED BY <1>5, <2>1, <2>2, <2>3
<1>7. \A p \in Newlines(file) : file[p][1] <= written
  BY DEF OnceInv, WrittenOnce, Newlines
<1>8. OnRecord' = OnRecord /\ Taken' = Taken /\ Seen' = Seen
  BY <1>1 DEF OnRecord, Taken, Seen
<1>9. Distinct'
  BY <1>1, <1>8 DEF OnceInv, Distinct, NothingTwice
<1>10. WrittenOnce'
  <2>1. OnceEnded(file')
    <3> SUFFICES ASSUME NEW i \in Newlines(file'), NEW j \in Newlines(file'),
                        file'[i][1] = file'[j][1]
                 PROVE  i = j
      BY DEF OnceEnded
    <3>0. ASSUME NEW p \in Newlines(file'), p # m + 3
          PROVE  p \in Newlines(file) /\ file'[p] = file[p] /\ file'[p][1] # n
      <4>1. p \in Newlines(file) /\ file'[p] = file[p]
        BY <1>6, <3>0
      <4>2. file[p][1] <= written
        BY <1>7, <4>1
      <4> QED BY <1>2, <4>1, <4>2
    <3>1. CASE i = m + 3
      <4>1. file'[i][1] = n
        BY <3>1, <1>4 DEF EndOfLine
      <4> QED BY <3>0, <3>1, <4>1
    <3>2. CASE j = m + 3
      <4>1. file'[j][1] = n
        BY <3>2, <1>4 DEF EndOfLine
      <4> QED BY <3>0, <3>2, <4>1
    <3>3. CASE i # m + 3 /\ j # m + 3
      BY <3>0, <3>3 DEF OnceInv, WrittenOnce, OnceEnded
    <3> QED BY <3>1, <3>2, <3>3
  <2>2. ASSUME NEW i \in DOMAIN file' PROVE file'[i][1] <= written'
    <3>1. i \in 1 .. m + 3
      BY <1>4, InText
    <3>2. CASE i \in 1 .. m /\ file'[i] = file[i]
      <4>1. file[i][1] <= written /\ file[i][1] \in Nat
        BY <1>3, <3>2, InText DEF OnceInv, WrittenOnce, m, Lines
      <4> QED BY <1>1, <1>2, <3>2, <4>1
    <3>3. CASE file'[i][1] = n
      BY <1>1, <1>2, <3>3
    <3> QED BY <1>5, <3>1, <3>2, <3>3
  <2>3. ASSUME NEW x \in Seen' PROVE x <= written'
    <3>1. x <= written /\ x \in Int
      <4>1. Seen \subseteq Lines
        <5>1. Ended(chunk) \subseteq Lines
          BY InText, NewlinesIn DEF Ended, OnceInv, TailerTypeOK, Text
        <5>2. OnRecord \subseteq Lines
          BY DEF OnRecord, LineEvents
        <5>3. EndsIn(collected) \subseteq Lines /\ EndsIn(parsed) \subseteq Lines
          <6>1. ASSUME NEW evs \in Seq(LineEvents) PROVE EndsIn(evs) \subseteq Lines
            BY DEF EndsIn, LineEvents
          <6> QED BY <6>1 DEF OnceInv, TailerTypeOK
        <5> QED BY <5>1, <5>2, <5>3 DEF Seen, Taken
      <4> QED BY <1>8, <4>1 DEF OnceInv, WrittenOnce, Lines
    <3> QED BY <1>1, <1>2, <3>1
  <2> QED BY <2>1, <2>2, <2>3 DEF WrittenOnce
<1>11. InFile(Taken)' \subseteq InFile(Taken) /\ InFile(Seen)' \subseteq InFile(Seen)
  <2>1. n \notin Seen
    BY <1>2 DEF OnceInv, WrittenOnce
  <2> QED BY <1>6, <1>8, <2>1 DEF InFile, Seen
<1>12. Placed'
  <2>1. ASSUME NEW x \in Int, x <= Len(file) PROVE x <= Len(file')
    BY <1>3, <1>4, <2>1 DEF m
  <2>2. metaOffset \in Int /\ offset \in Int
    BY DEF OnceInv, TailerTypeOK, NoMeta
  <2> QED BY <1>1, <1>11, <2>1, <2>2 DEF OnceInv, Placed
<1> QED BY <1>9, <1>10, <1>12

LEMMA OnceInit == TailerInit => OnceInv
<1> SUFFICES ASSUME TailerInit PROVE OnceInv
  OBVIOUS
<1>1. TailerTypeOK
  BY TailerTypeInit
<1>2. /\ file = <<>> /\ chunk = <<>> /\ parsed = <<>> /\ collected = <<>> /\ partial = <<>>
      /\ step = "select" /\ initialized = FALSE
      /\ \A e \in LineEvents : recorded[e] = 0
  BY DEF TailerInit
<1>3. OnRecord = {} /\ Taken = {} /\ Seen = {} /\ NothingTwice
  BY <1>2, NothingIn DEF OnRecord, Taken, Seen, NothingTwice
<1>4. Distinct
  BY <1>2, <1>3, NothingIn DEF Distinct
<1>5. WrittenOnce
  BY <1>2, <1>3, NothingIn DEF WrittenOnce
<1>6. Placed
  BY <1>2, <1>3 DEF Placed, InFile
<1> QED BY <1>1, <1>4, <1>5, <1>6 DEF OnceInv

LEMMA OnceStep == OnceInv /\ [TailerNext]_tailerVars => OnceInv'
<1> SUFFICES ASSUME OnceInv, [TailerNext]_tailerVars PROVE OnceInv'
  OBVIOUS
<1>1. TailerTypeOK'
  BY TailerTypeStep DEF OnceInv
<1>2. Distinct' /\ WrittenOnce' /\ Placed'
  BY TickOnce, InitOffsetOnce, ResetMetaOnce, PauseOnce, ReadFailsOnce, OpenOnce,
     TruncateOnce, LogLostOnce, AgentStopsOnce, PersistOnce, AppendOnce, FlushOnce, XrayOnce
     DEF TailerNext, Read, World
<1> QED BY <1>1, <1>2 DEF OnceInv

\* No line is recorded twice, whatever fails and whenever the agent stops:
\* readNewEvents stores the offset before it parses the chunk that it has read,
\* so that no event is on record whose line lies behind the stored offset, and
\* a batch whose flush failed was rolled back as a whole.
THEOREM RecordedOnce == TailerSpec => []NothingTwice
<1>1. OnceInv => NothingTwice
  BY DEF OnceInv, Distinct
<1> QED BY <1>1, OnceInit, OnceStep, PTL DEF TailerSpec

-----------------------------------------------------------------------------
(* AccessLogTailer: what a truncation costs.                               *)

\* A whole line in a text, where parseChunk sees one begin; and a text that does not
\* end within a line.
WholeAt(text, i, n) ==
  /\ i \in 1 .. Len(text) - 2
  /\ Begins(text, i)
  /\ \A k \in 1 .. 3 : text[i + k - 1] = <<n, k>>
WholeIn(text, n) == \E i \in Nat : WholeAt(text, i, n)
Closed(text) == text = <<>> \/ text[Len(text)][2] = EndOfLine

LEMMA WholeParts ==
  ASSUME NEW text \in Text, NEW i, NEW n, WholeAt(text, i, n)
  PROVE  /\ i \in 1 .. Len(text) /\ i + 1 \in 1 .. Len(text) /\ i + 2 \in 1 .. Len(text)
         /\ text[i] = <<n, 1>> /\ text[i + 1] = <<n, 2>> /\ text[i + 2] = <<n, 3>>
         /\ i \in Nat /\ Begins(text, i)
<1>1. Len(text) \in Nat /\ i \in 1 .. Len(text) - 2
  BY InText DEF WholeAt
<1>2. text[i + 1 - 1] = <<n, 1>> /\ text[i + 2 - 1] = <<n, 2>> /\ text[i + 3 - 1] = <<n, 3>>
  BY DEF WholeAt
<1>3. i + 1 - 1 = i /\ i + 2 - 1 = i + 1 /\ i + 3 - 1 = i + 2
  BY <1>1
<1> QED BY <1>1, <1>2, <1>3 DEF WholeAt

LEMMA WholeIntro ==
  ASSUME NEW text \in Text, NEW i \in Nat, NEW n,
         i \in 1 .. Len(text) - 2, Begins(text, i),
         text[i] = <<n, 1>>, text[i + 1] = <<n, 2>>, text[i + 2] = <<n, 3>>
  PROVE  WholeAt(text, i, n)
<1>1. ASSUME NEW k \in 1 .. 3 PROVE text[i + k - 1] = <<n, k>>
  <2>1. k = 1 \/ k = 2 \/ k = 3
    OBVIOUS
  <2>2. i + 1 - 1 = i /\ i + 2 - 1 = i + 1 /\ i + 3 - 1 = i + 2
    OBVIOUS
  <2> QED BY <2>1, <2>2
<1> QED BY <1>1 DEF WholeAt

\* A whole line that begins in what is left is whole there.
LEMMA WholeAfter ==
  ASSUME NEW s \in Text, NEW t \in Text, NEW l, After(s, l, t),
         NEW i, NEW n, WholeAt(s, i, n), i > l
  PROVE  WholeAt(t, i - l, n)
<1>1. /\ Len(s) \in Nat /\ Len(t) \in Nat /\ l \in Nat /\ Len(t) = Len(s) - l
      /\ i \in 1 .. Len(s) - 2 /\ i \in Nat
  BY InText DEF After, WholeAt
<1> DEFINE j == i - l
<1>2. /\ j \in Nat /\ j \in 1 .. Len(t) - 2
      /\ j \in 1 .. Len(t) /\ j + 1 \in 1 .. Len(t) /\ j + 2 \in 1 .. Len(t)
      /\ l + j = i /\ l + (j + 1) = i + 1 /\ l + (j + 2) = i + 2
  BY <1>1
<1>3. t[j] = s[i] /\ t[j + 1] = s[i + 1] /\ t[j + 2] = s[i + 2]
  <2> HIDE DEF j
  <2>1. \A x \in 1 .. Len(t) : t[x] = s[l + x]
    BY DEF After
  <2>2. t[j] = s[l + j] /\ t[j + 1] = s[l + (j + 1)] /\ t[j + 2] = s[l + (j + 2)]
    BY <1>2, <2>1
  <2> QED BY <1>2, <2>2
<1>4. Begins(t, j)
  <2>1. CASE i = 1 \/ i - 1 = l
    BY <1>1, <2>1 DEF Begins
  <2>2. CASE i # 1 /\ i - 1 # l
    <3>1. i - 1 \in Newlines(s)
      BY <2>2, WholeParts DEF Begins
    <3>2. j - 1 \in 1 .. Len(t) /\ l + (j - 1) = i - 1
      BY <1>1, <2>2
    <3>3. t[j - 1][2] = EndOfLine
      BY <3>1, <3>2 DEF After, Newlines
    <3> QED BY <3>2, <3>3, InText DEF Begins, Newlines
  <2> QED BY <2>1, <2>2
<1> HIDE DEF j
<1>5. t[j] = <<n, 1>> /\ t[j + 1] = <<n, 2>> /\ t[j + 2] = <<n, 3>>
  BY <1>3, WholeParts
<1>6. WholeAt(t, j, n)
  BY <1>2, <1>4, <1>5, WholeIntro
<1> QED BY <1>6 DEF j

LEMMA ClosedAfter ==
  ASSUME NEW s \in Text, NEW t \in Text, NEW l, After(s, l, t), Closed(s)
  PROVE  Closed(t)
<1>1. Len(s) \in Nat /\ Len(t) \in Nat /\ l \in 0 .. Len(s) /\ Len(t) = Len(s) - l
  BY InText DEF After
<1>2. CASE Len(t) = 0
  <2>1. t = <<>>
    BY <1>2 DEF Text
  <2> QED BY <2>1 DEF Closed
<1>3. CASE Len(t) # 0
  <2>1. Len(t) \in 1 .. Len(t) /\ l + Len(t) = Len(s)
    BY <1>1, <1>3
  <2>2. t[Len(t)] = s[Len(s)] /\ s # <<>>
    BY <1>1, <2>1 DEF After
  <2> QED BY <2>2 DEF Closed
<1> QED BY <1>2, <1>3

\* A line of a longer text that ends in its beginning is whole there too, and the
\* other way round.
LEMMA WholeJoin ==
  ASSUME NEW a \in Text, NEW b \in Text, NEW i, NEW n
  PROVE  /\ WholeAt(a, i, n) => WholeAt(a \o b, i, n)
         /\ WholeAt(a \o b, i, n) /\ i + 2 <= Len(a) => WholeAt(a, i, n)
<1> DEFINE t == a \o b
<1>1. /\ t \in Text /\ Len(t) = Len(a) + Len(b) /\ Len(a) \in Nat /\ Len(b) \in Nat
      /\ \A k \in 1 .. Len(a) : t[k] = a[k]
  BY JoinIs, InText
<1>2. \A k \in 1 .. Len(a) : k \in Newlines(t) <=> k \in Newlines(a)
  BY <1>1, JoinNewlines
<1> HIDE DEF t
<1>3. ASSUME WholeAt(a, i, n) PROVE WholeAt(t, i, n)
  <2>1. /\ i \in 1 .. Len(a) /\ i + 1 \in 1 .. Len(a) /\ i + 2 \in 1 .. Len(a)
        /\ a[i] = <<n, 1>> /\ a[i + 1] = <<n, 2>> /\ a[i + 2] = <<n, 3>>
        /\ i \in Nat /\ Begins(a, i)
    BY <1>3, WholeParts
  <2>2. Begins(t, i)
    <3>1. CASE i = 1
      BY <3>1 DEF Begins
    <3>2. CASE i # 1
      <4>1. i - 1 \in 1 .. Len(a) /\ i - 1 \in Newlines(a)
        BY <2>1, <3>2 DEF Begins
      <4> QED BY <1>2, <4>1 DEF Begins
    <3> QED BY <3>1, <3>2
  <2>3. i \in 1 .. Len(t) - 2
    BY <1>1, <2>1
  <2> QED BY <1>1, <2>1, <2>2, <2>3, WholeIntro
<1>4. ASSUME WholeAt(t, i, n), i + 2 <= Len(a) PROVE WholeAt(a, i, n)
  <2>1. /\ i \in 1 .. Len(t)
        /\ t[i] = <<n, 1>> /\ t[i + 1] = <<n, 2>> /\ t[i + 2] = <<n, 3>>
        /\ i \in Nat /\ Begins(t, i)
    BY <1>1, <1>4, WholeParts
  <2>2. /\ i \in 1 .. Len(a) /\ i + 1 \in 1 .. Len(a) /\ i + 2 \in 1 .. Len(a)
        /\ i \in 1 .. Len(a) - 2
    BY <1>1, <1>4, <2>1
  <2>3. Begins(a, i)
    <3>1. CASE i = 1
      BY <3>1 DEF Begins
    <3>2. CASE i # 1
      <4>1. i - 1 \in 1 .. Len(a) /\ i - 1 \in Newlines(t)
        BY <1>1, <2>1, <2>2, <3>2 DEF Begins
      <4> QED BY <1>2, <4>1 DEF Begins
    <3> QED BY <3>1, <3>2
  <2> QED BY <1>1, <2>1, <2>2, <2>3, WholeIntro
<1> QED BY <1>3, <1>4 DEF t

\* Whole lines are parsed as what they are.
LEMMA WholeParsed ==
  ASSUME NEW text \in Text, NEW i, NEW n, WholeAt(text, i, n)
  PROVE  \E k \in DOMAIN Parse(text) : Parse(text)[k] = EventOf(n)
<1>1. /\ i \in 1 .. Len(text) /\ i + 1 \in 1 .. Len(text) /\ i + 2 \in 1 .. Len(text)
      /\ text[i] = <<n, 1>> /\ text[i + 1] = <<n, 2>> /\ text[i + 2] = <<n, 3>>
      /\ i \in Nat /\ Begins(text, i)
  BY WholeParts
<1>2. i + 2 \in Newlines(text) /\ i + 1 \notin Newlines(text) /\ i < i + 2
  BY <1>1, InText DEF Newlines, EndOfLine
<1>3. i \in Starts(text)
  BY <1>1, <1>2, InText DEF Starts, First
<1>4. EndOf(text, i) = i + 2
  <2>1. /\ EndOf(text, i) \in Newlines(text) /\ EndOf(text, i) \in 1 .. Len(text)
        /\ i < EndOf(text, i) /\ EndOf(text, i) <= i + 2
    BY <1>2, <1>3, EndIs
  <2>2. EndOf(text, i) # i + 1
    BY <1>2, <2>1
  <2> QED BY <1>1, <2>1, <2>2, InText
<1>5. EventAt(text, i) = EventOf(n)
  BY <1>1, <1>4 DEF EventAt, EventOf
<1> QED BY <1>3, <1>5, ParseIs

\* Texts with the same parts are the same, and so it does not matter in which
\* order texts are joined or where one is cut in two.
LEMMA SameText ==
  ASSUME NEW a \in Text, NEW b \in Text, Len(a) = Len(b),
         \A i \in 1 .. Len(a) : a[i] = b[i]
  PROVE  a = b
BY DEF Text

LEMMA JoinJoin ==
  ASSUME NEW a \in Text, NEW b \in Text, NEW c \in Text
  PROVE  (a \o b) \o c = a \o (b \o c)
<1> DEFINE ab == a \o b
           bc == b \o c
           s == ab \o c
           t == a \o bc
<1>1. /\ ab \in Text /\ bc \in Text /\ s \in Text /\ t \in Text
      /\ Len(a) \in Nat /\ Len(b) \in Nat /\ Len(c) \in Nat
      /\ Len(ab) = Len(a) + Len(b) /\ Len(bc) = Len(b) + Len(c)
      /\ Len(s) = Len(ab) + Len(c) /\ Len(t) = Len(a) + Len(bc)
  BY JoinIs, InText
<1>2. /\ \A i \in 1 .. Len(a) : ab[i] = a[i]
      /\ \A i \in 1 .. Len(b) : ab[Len(a) + i] = b[i]
      /\ \A i \in 1 .. Len(b) : bc[i] = b[i]
      /\ \A i \in 1 .. Len(c) : bc[Len(b) + i] = c[i]
  BY JoinIs
<1>3. /\ \A i \in 1 .. Len(ab) : s[i] = ab[i]
      /\ \A i \in 1 .. Len(c) : s[Len(ab) + i] = c[i]
      /\ \A i \in 1 .. Len(a) : t[i] = a[i]
      /\ \A i \in 1 .. Len(bc) : t[Len(a) + i] = bc[i]
  <2> HIDE DEF ab, bc
  <2> QED BY <1>1, JoinIs
<1> HIDE DEF ab, bc, s, t
<1>5. ASSUME NEW i \in 1 .. Len(s) PROVE s[i] = t[i]
  <2>1. CASE i \in 1 .. Len(a)
    <3>1. i \in 1 .. Len(ab)
      BY <1>1, <2>1
    <3> QED BY <1>2, <1>3, <2>1, <3>1
  <2>2. CASE i - Len(a) \in 1 .. Len(b)
    <3> DEFINE j == i - Len(a)
    <3>1. Len(a) + j = i /\ i \in 1 .. Len(ab) /\ j \in 1 .. Len(bc)
      BY <1>1, <2>2
    <3> HIDE DEF j
    <3>2. s[i] = ab[i] /\ t[i] = bc[j] /\ ab[i] = b[j] /\ bc[j] = b[j]
      BY <1>2, <1>3, <2>2, <3>1 DEF j
    <3> QED BY <3>2
  <2>3. CASE i - Len(ab) \in 1 .. Len(c)
    <3> DEFINE j == i - Len(ab)
    <3>1. Len(ab) + j = i /\ Len(b) + j \in 1 .. Len(bc) /\ Len(a) + (Len(b) + j) = i
      BY <1>1, <2>3
    <3> HIDE DEF j
    <3>2. j \in 1 .. Len(c)
      BY <2>3 DEF j
    <3>3. s[i] = c[j] /\ t[i] = bc[Len(b) + j] /\ bc[Len(b) + j] = c[j]
      BY <1>2, <1>3, <3>1, <3>2
    <3> QED BY <3>3
  <2>4. i \in 1 .. Len(a) \/ i - Len(a) \in 1 .. Len(b) \/ i - Len(ab) \in 1 .. Len(c)
    BY <1>1
  <2> QED BY <2>1, <2>2, <2>3, <2>4
<1>6. s = t
  <2>1. Len(s) = Len(t)
    BY <1>1
  <2> QED BY <1>1, <1>5, <2>1, SameText
<1> QED BY <1>6 DEF ab, bc, s, t

LEMMA CutInTwo ==
  ASSUME NEW text \in Text, NEW start \in Nat, NEW c \in Text, start + Len(c) <= Len(text),
         \A i \in 1 .. Len(c) : c[i] = text[start + i]
  PROVE  c \o CutOf(text, start + Len(c), Len(text)) = CutOf(text, start, Len(text))
<1>1. PICK m : m = start + Len(c)
  OBVIOUS
<1>2. Len(text) \in Nat /\ Len(c) \in Nat /\ m \in Nat /\ m <= Len(text) /\ start <= Len(text)
  BY <1>1, InText
<1>3. PICK b : b = CutOf(text, m, Len(text))
  OBVIOUS
<1>4. PICK d : d = CutOf(text, start, Len(text))
  OBVIOUS
<1>5. b \in Text /\ d \in Text /\ After(text, m, b) /\ After(text, start, d)
  BY <1>2, <1>3, <1>4, CutType, TailIs
<1>6. /\ Len(b) = Len(text) - m /\ \A i \in 1 .. Len(b) : b[i] = text[m + i]
      /\ Len(d) = Len(text) - start /\ \A i \in 1 .. Len(d) : d[i] = text[start + i]
  BY <1>5 DEF After
<1>7. /\ c \o b \in Text /\ Len(c \o b) = Len(d)
      /\ \A i \in 1 .. Len(c) : (c \o b)[i] = c[i]
      /\ \A i \in 1 .. Len(b) : (c \o b)[Len(c) + i] = b[i]
  <2>1. Len(c) + Len(b) = Len(d)
    BY <1>1, <1>2, <1>6
  <2> QED BY <1>5, <2>1, JoinIs
<1>8. ASSUME NEW i \in 1 .. Len(d) PROVE (c \o b)[i] = d[i]
  <2>1. CASE i \in 1 .. Len(c)
    BY <1>6, <1>7, <2>1
  <2>2. CASE i - Len(c) \in 1 .. Len(b)
    <3>1. Len(c) + (i - Len(c)) = i /\ m + (i - Len(c)) = start + i
      BY <1>1, <1>2
    <3>2. b[i - Len(c)] = text[start + i] /\ (c \o b)[i] = b[i - Len(c)]
      BY <1>6, <1>7, <2>2, <3>1
    <3> QED BY <1>6, <3>2
  <2>3. i \in 1 .. Len(c) \/ i - Len(c) \in 1 .. Len(b)
    BY <1>1, <1>2, <1>6
  <2> QED BY <2>1, <2>2, <2>3
<1>9. c \o b = d
  BY <1>5, <1>7, <1>8, SameText
<1> QED BY <1>1, <1>3, <1>4, <1>9

LEMMA JoinNothing ==
  ASSUME NEW a \in Text
  PROVE  <<>> \o a = a /\ a \o <<>> = a /\ <<>> \in Text /\ Len(<<>>) = 0
BY DEF Text

\* What is still to be parsed, if nothing fails any more.
Stream == partial \o chunk \o Beyond(offset)
\* Line n is on record, will be from memory, or was dropped on purpose.
Kept(n) ==
  \/ recorded[EventOf(n)] > 0
  \/ EventOf(n) \in Range(collected) \union Range(parsed)
  \/ n \in dropped

\* All lines but those of D are kept or still to be parsed, the next one too.
Accounts(D) ==
  /\ Closed(Stream) \/ written + 1 \in D
  /\ \A n \in 1 .. written : Kept(n) \/ n \in D \/ WholeIn(Stream, n)
Bounded ==
  \E D \in SUBSET (1 .. written + 1) : Cardinality(D) <= 2 * truncations /\ Accounts(D)

\* The first agent and the file, before and after the offset is initialized.
FromStart ==
  /\ truncations = 0 /\ metaOffset = NoMeta /\ partial = <<>> /\ parsed = <<>>
  /\ Len(file) = 3 * written
  /\ \A n \in 1 .. written, k \in 1 .. 3 : file[3 * (n - 1) + k] = <<n, k>>
  /\ step = "init" => \E m \in 0 .. written : size = 3 * m
Reading ==
  /\ offset <= Len(file)
  /\ step = "open" => offset <= size
  /\ step \in {"persist", "truncate", "reset_meta"} \/ chunk = <<>>
  /\ step \in {"append", "flush"} \/ parsed = <<>>

LossInv == harm = 0 => IF initialized THEN Reading /\ Bounded ELSE FromStart

LEMMA StreamIs ==
  ASSUME TailerTypeOK
  PROVE  /\ partial \in Text /\ chunk \in Text /\ file \in Text /\ offset \in Nat
         /\ Beyond(offset) = CutOf(file, offset, Len(file)) /\ Beyond(offset) \in Text
         /\ partial \o chunk \in Text /\ Stream \in Text
         /\ Stream = (partial \o chunk) \o Beyond(offset)
<1>1. partial \in Text /\ chunk \in Text /\ file \in Text /\ offset \in Nat
  BY DEF TailerTypeOK, Text
<1>2. Beyond(offset) = CutOf(file, offset, Len(file)) /\ Beyond(offset) \in Text
  BY <1>1, InText, Cuts, CutType
<1>3. partial \o chunk \in Text
  BY <1>1, JoinIs
<1>4. Stream = (partial \o chunk) \o Beyond(offset)
  BY DEF Stream
<1>5. (partial \o chunk) \o Beyond(offset) \in Text
  BY <1>2, <1>3, JoinIs
<1> QED BY <1>1, <1>2, <1>3, <1>4, <1>5

LEMMA StreamNext ==
  /\ Stream' = (partial' \o chunk') \o CutOf(file', offset', Len(file'))
  /\ file' = file /\ offset' = offset => Beyond(offset)' = Beyond(offset)
BY DEF Stream, Beyond, Slice, CutOf

\* Steps that leave the stream alone and forget no event.
LEMMA BoundedKeeps ==
  ASSUME Bounded, Stream' = Stream, written' = written, truncations' = truncations,
         \A n \in 1 .. written : Kept(n) => Kept(n)'
  PROVE  Bounded'
BY DEF Bounded, Accounts

LEMMA QuietLoss ==
  OnceInv /\ LossInv /\ (ReadTick \/ ResetMeta \/ ReadDone \/ FlushFails \/ UNCHANGED tailerVars)
    => LossInv'
<1> SUFFICES ASSUME OnceInv, LossInv, harm' = 0,
                    ReadTick \/ ResetMeta \/ ReadDone \/ FlushFails \/ UNCHANGED tailerVars
             PROVE  LossInv'
  BY DEF LossInv
<1>1. /\ UNCHANGED <<file, written, recorded, collected, parsed, chunk, partial, dropped>>
      /\ UNCHANGED <<initialized, offset, truncations>>
      /\ harm' = harm
  BY DEF ReadTick, ResetMeta, ReadDone, FlushFails, Fault, tailerVars, dbVars, fieldVars,
         readVars, historyVars
<1>2. harm = 0
  BY <1>1
<1>3. CASE initialized
  <2>1. Reading /\ Bounded
    BY <1>2, <1>3 DEF LossInv
  <2>2. Stream' = Stream
    BY <1>1 DEF Stream, Beyond, Slice
  <2>3. \A n \in 1 .. written : Kept(n) => Kept(n)'
    BY <1>1 DEF Kept
  <2>4. Bounded'
    BY <1>1, <2>1, <2>2, <2>3, BoundedKeeps
  <2>5. Reading'
    <3>1. CASE ReadTick
      <4>1. size' = Len(file) /\ step' = "open" /\ step = "select"
        BY <1>3, <3>1 DEF ReadTick
      <4> QED BY <1>1, <2>1, <4>1 DEF Reading
    <3>2. CASE ResetMeta
      <4>1. step = "reset_meta" /\ step' = IF chunk = <<>> THEN "select" ELSE "persist"
        BY <3>2 DEF ResetMeta
      <4> QED BY <1>1, <2>1, <4>1 DEF Reading
    <3>3. CASE ReadDone
      <4>1. step = "append" /\ step' = "select" /\ parsed = <<>>
        BY <3>3 DEF ReadDone
      <4> QED BY <1>1, <2>1, <4>1 DEF Reading
    <3>4. CASE FlushFails
      <4>1. \/ step = "flush" /\ step' = "append"
            \/ step = "select" /\ step' = "select"
        BY <3>4 DEF FlushFails, Resume
      <4> QED BY <1>1, <2>1, <4>1 DEF Reading
    <3>5. CASE UNCHANGED tailerVars
      BY <1>1, <2>1, <3>5 DEF Reading, tailerVars, readVars
    <3> QED BY <3>1, <3>2, <3>3, <3>4, <3>5
  <2> QED BY <1>1, <1>3, <2>4, <2>5 DEF LossInv
<1>4. CASE ~initialized
  <2>1. FromStart /\ step \in {"select", "init"}
    BY <1>2, <1>4 DEF LossInv, OnceInv, Placed
  <2>2. metaOffset' = metaOffset
    BY <2>1 DEF ReadTick, ResetMeta, ReadDone, FlushFails, tailerVars, dbVars
  <2>3. step' = "init" => \E m \in 0 .. written : size' = 3 * m
    <3>1. CASE ReadTick
      <4>1. size' = 3 * written /\ written \in 0 .. written
        BY <2>1, <3>1 DEF ReadTick, FromStart, OnceInv, TailerTypeOK
      <4> QED BY <4>1
    <3>2. CASE ResetMeta \/ ReadDone
      BY <2>1, <3>2 DEF ResetMeta, ReadDone
    <3>3. CASE FlushFails
      BY <3>3 DEF FlushFails, Resume
    <3>4. CASE UNCHANGED tailerVars
      BY <2>1, <3>4 DEF FromStart, tailerVars, readVars
    <3> QED BY <3>1, <3>2, <3>3, <3>4
  <2>4. FromStart'
    BY <1>1, <2>1, <2>2, <2>3 DEF FromStart
  <2> QED BY <1>1, <1>4, <2>4 DEF LossInv
<1> QED BY <1>3, <1>4

LEMMA OpenLoss == OnceInv /\ LossInv /\ Open => LossInv'
<1> SUFFICES ASSUME OnceInv, LossInv, harm' = 0, Open PROVE LossInv'
  BY DEF LossInv
<1>1. /\ UNCHANGED <<file, written, recorded, collected, parsed, dropped, truncations>>
      /\ initialized' = initialized /\ harm' = harm /\ step = "open"
  BY DEF Open, dbVars, historyVars
<1>2. initialized /\ Reading /\ Bounded
  BY <1>1 DEF LossInv, OnceInv, Placed
<1>3. offset <= size /\ offset <= Len(file) /\ chunk = <<>> /\ parsed = <<>>
  BY <1>1, <1>2 DEF Reading
<1>4. ~(size < offset)
  BY <1>3 DEF OnceInv, TailerTypeOK
<1>5. /\ chunk' \in Text /\ offset' = offset + Len(chunk') /\ offset' <= Len(file)
      /\ \A i \in 1 .. Len(chunk') : chunk'[i] = file[offset + i]
      /\ partial' = partial
  BY <1>3, <1>4, OpenReads DEF OnceInv, Open
<1>6. /\ partial \in Text /\ file \in Text /\ offset \in Nat
      /\ Stream = (partial \o chunk) \o Beyond(offset)
      /\ Beyond(offset) = CutOf(file, offset, Len(file)) /\ Beyond(offset) \in Text
  BY StreamIs DEF OnceInv
<1>7. Stream' = Stream
  <2> DEFINE b == CutOf(file, offset', Len(file))
  <2>1. b \in Text
    <3>1. offset' \in Nat /\ Len(file) \in Nat
      BY <1>5, <1>6, InText
    <3> QED BY <1>6, <3>1, CutType
  <2>2. chunk' \o b = CutOf(file, offset, Len(file))
    BY <1>5, <1>6, CutInTwo
  <2>3. Stream' = (partial \o chunk') \o b
    BY <1>1, <1>5, StreamNext
  <2> HIDE DEF b
  <2>4. Stream' = partial \o (chunk' \o b)
    <3>1. partial \in Text /\ chunk' \in Text
      BY <1>5, <1>6
    <3> QED BY <2>1, <2>3, <3>1, JoinJoin
  <2>5. Stream = partial \o CutOf(file, offset, Len(file))
    BY <1>3, <1>6, JoinNothing
  <2> QED BY <2>2, <2>4, <2>5
<1>8. Bounded'
  <2>1. \A n \in 1 .. written : Kept(n) => Kept(n)'
    BY <1>1 DEF Kept
  <2> QED BY <1>1, <1>2, <1>7, <2>1, BoundedKeeps
<1>9. Reading'
  <2>1. /\ step' \in {"truncate", "persist", "select"}
        /\ step' = "select" => chunk' = <<>>
    BY <1>4 DEF Open
  <2> QED BY <1>1, <1>3, <1>5, <2>1 DEF Reading
<1> QED BY <1>1, <1>2, <1>8, <1>9 DEF LossInv

\* What Xray writes is still to be parsed; it is a line of its own if what
\* precedes it is closed, and else one that D has.
LEMMA WholeLine ==
  ASSUME NEW a \in Text, NEW n \in Lines
  PROVE  /\ a \o LineOf(n) \in Text /\ Closed(a \o LineOf(n))
         /\ Closed(a) => WholeIn(a \o LineOf(n), n)
<1> DEFINE l == LineOf(n)
           t == a \o l
<1>1. l \in Text /\ Len(l) = 3 /\ \A k \in 1 .. 3 : l[k] = <<n, k>>
  BY LineIs
<1> HIDE DEF l
<1>2. /\ t \in Text /\ Len(t) = Len(a) + Len(l) /\ Len(a) \in Nat
      /\ \A k \in 1 .. Len(l) : t[Len(a) + k] = l[k]
      /\ \A i \in 1 .. Len(a) : t[i] = a[i]
  BY <1>1, JoinIs, InText
<1> HIDE DEF t
<1>3. \A k \in 1 .. 3 : t[Len(a) + k] = <<n, k>>
  BY <1>1, <1>2
<1>4. Closed(t)
  <2>1. t[Len(a) + 3] = <<n, 3>> /\ Len(t) = Len(a) + 3
    BY <1>1, <1>2, <1>3
  <2> QED BY <2>1 DEF Closed, EndOfLine
<1>5. ASSUME Closed(a) PROVE WholeIn(t, n)
  <2> DEFINE i == Len(a) + 1
  <2>1. i \in Nat /\ i \in 1 .. Len(t) - 2 /\ i + 1 = Len(a) + 2 /\ i + 2 = Len(a) + 3
    BY <1>1, <1>2
  <2>2. t[i] = <<n, 1>> /\ t[i + 1] = <<n, 2>> /\ t[i + 2] = <<n, 3>>
    BY <1>3, <2>1
  <2>3. Begins(t, i)
    <3>1. CASE a = <<>>
      BY <3>1 DEF Begins
    <3>2. CASE a # <<>>
      <4>1. a[Len(a)][2] = EndOfLine /\ Len(a) \in 1 .. Len(a)
        BY <1>2, <1>5, <3>2 DEF Closed, Text
      <4>2. t[Len(a)] = a[Len(a)] /\ Len(a) \in 1 .. Len(t) /\ i - 1 = Len(a)
        BY <1>2, <4>1
      <4> QED BY <1>2, <4>1, <4>2, InText DEF Begins, Newlines
    <3> QED BY <3>1, <3>2
  <2> HIDE DEF i
  <2>4. WholeAt(t, i, n)
    BY <1>2, <2>1, <2>2, <2>3, WholeIntro
  <2> QED BY <2>1, <2>4 DEF WholeIn
<1> QED BY <1>2, <1>4, <1>5 DEF t, l

LEMMA CutOfJoin ==
  ASSUME NEW a \in Text, NEW b \in Text, NEW start \in Nat, start <= Len(a)
  PROVE  CutOf(a \o b, start, Len(a \o b)) = CutOf(a, start, Len(a)) \o b
<1>1. PICK t : t = a \o b
  OBVIOUS
<1>2. /\ t \in Text /\ Len(t) = Len(a) + Len(b) /\ Len(a) \in Nat /\ Len(b) \in Nat
      /\ \A i \in 1 .. Len(a) : t[i] = a[i]
      /\ \A i \in 1 .. Len(b) : t[Len(a) + i] = b[i]
  BY <1>1, JoinIs, InText
<1>3. PICK c : c = CutOf(a, start, Len(a))
  OBVIOUS
<1>4. PICK d : d = CutOf(t, start, Len(t))
  OBVIOUS
<1>5. start <= Len(t) /\ Len(t) \in Nat
  BY <1>2
<1>6. c \in Text /\ d \in Text /\ After(a, start, c) /\ After(t, start, d)
  BY <1>2, <1>3, <1>4, <1>5, CutType, TailIs
<1>7. /\ Len(c) = Len(a) - start /\ \A i \in 1 .. Len(c) : c[i] = a[start + i]
      /\ Len(d) = Len(t) - start /\ \A i \in 1 .. Len(d) : d[i] = t[start + i]
  BY <1>6 DEF After
<1>8. /\ c \o b \in Text /\ Len(c \o b) = Len(d)
      /\ \A i \in 1 .. Len(c) : (c \o b)[i] = c[i]
      /\ \A i \in 1 .. Len(b) : (c \o b)[Len(c) + i] = b[i]
  <2>1. Len(c) + Len(b) = Len(d)
    BY <1>2, <1>7
  <2> QED BY <1>6, <2>1, JoinIs
<1>9. ASSUME NEW i \in 1 .. Len(d) PROVE d[i] = (c \o b)[i]
  <2>1. CASE i \in 1 .. Len(c)
    <3>1. start + i \in 1 .. Len(a)
      BY <1>2, <1>7, <2>1
    <3> QED BY <1>2, <1>7, <1>8, <2>1, <3>1
  <2>2. CASE i - Len(c) \in 1 .. Len(b)
    <3>1. PICK j \in 1 .. Len(b) : j = i - Len(c)
      BY <2>2
    <3>2. Len(c) + j = i /\ Len(a) + j = start + i
      BY <1>2, <1>7, <3>1
    <3>3. (c \o b)[i] = b[j] /\ t[start + i] = b[j]
      BY <1>2, <1>8, <3>2
    <3> QED BY <1>7, <3>3
  <2>3. i \in 1 .. Len(c) \/ i - Len(c) \in 1 .. Len(b)
    BY <1>2, <1>7
  <2> QED BY <2>1, <2>2, <2>3
<1>10. d = c \o b
  BY <1>6, <1>8, <1>9, SameText
<1> QED BY <1>1, <1>3, <1>4, <1>10

LEMMA XrayLoss == OnceInv /\ LossInv /\ XrayWrites => LossInv'
<1> SUFFICES ASSUME OnceInv, LossInv, harm' = 0, XrayWrites PROVE LossInv'
  BY DEF LossInv
<1>1. PICK n : n = written + 1
  OBVIOUS
<1>2. /\ UNCHANGED <<recorded, collected, parsed, dropped, truncations, metaOffset, step>>
      /\ UNCHANGED <<initialized, offset, partial, size, chunk, harm>>
      /\ written' = n /\ file' = file \o LineOf(n)
  BY <1>1 DEF XrayWrites, dbVars, fieldVars, readVars, historyVars
<1>3. written \in Nat /\ n \in Lines /\ n \in Nat
  BY <1>1, TailerConstants DEF XrayWrites, OnceInv, TailerTypeOK, Lines
<1>4. file \in Text /\ Len(file) \in Nat /\ Stream \in Text /\ offset \in Nat
  BY StreamIs, InText DEF OnceInv
<1>5. PICK l : l = LineOf(n)
  OBVIOUS
<1>6. l \in Text /\ Len(l) = 3 /\ \A k \in 1 .. 3 : l[k] = <<n, k>>
  BY <1>3, <1>5, LineIs
<1>7. /\ file' \in Text /\ Len(file') = Len(file) + Len(l)
      /\ \A i \in 1 .. Len(file) : file'[i] = file[i]
      /\ \A i \in 1 .. Len(l) : file'[Len(file) + i] = l[i]
  <2>1. file' = file \o l
    BY <1>2, <1>5
  <2>2. file \in Text /\ l \in Text
    BY <1>4, <1>6
  <2> QED BY <2>1, <2>2, JoinIs
<1>8. CASE initialized
  <2>1. Reading /\ Bounded
    BY <1>2, <1>8 DEF LossInv
  <2>2. Stream' = Stream \o l
    <3>1. PICK a : a = partial \o chunk
      OBVIOUS
    <3>2. PICK b : b = CutOf(file, offset, Len(file))
      OBVIOUS
    <3>3. a \in Text /\ b \in Text /\ Stream = a \o b
      BY <3>1, <3>2, StreamIs DEF OnceInv
    <3>4. CutOf(file \o l, offset, Len(file \o l)) = b \o l
      BY <1>4, <1>6, <2>1, <3>2, CutOfJoin DEF Reading
    <3>5. Stream' = a \o (b \o l)
      BY <1>2, <1>5, <3>1, <3>4, StreamNext
    <3> QED BY <1>6, <3>3, <3>5, JoinJoin
  <2>3. PICK D \in SUBSET (1 .. written + 1) : Cardinality(D) <= 2 * truncations /\ Accounts(D)
    BY <2>1 DEF Bounded
  <2>4. ASSUME NEW k \in 1 .. n PROVE Kept(k)' \/ k \in D \/ WholeIn(Stream, k)'
    <3>1. CASE k = n
      <4>1. Closed(Stream) => WholeIn(Stream \o l, n)
        BY <1>3, <1>4, <1>5, WholeLine
      <4> QED BY <1>1, <2>2, <2>3, <3>1, <4>1 DEF Accounts, WholeIn, WholeAt, Begins, Newlines
    <3>2. CASE k # n
      <4>1. k \in 1 .. written
        BY <1>1, <1>3, <3>2
      <4>2. Kept(k) \/ k \in D \/ WholeIn(Stream, k)
        BY <2>3, <4>1 DEF Accounts
      <4>3. Kept(k) => Kept(k)'
        BY <1>2 DEF Kept
      <4>4. WholeIn(Stream, k) => WholeIn(Stream', k)
        BY <1>4, <1>6, <2>2, WholeJoin DEF WholeIn
      <4> QED BY <4>2, <4>3, <4>4 DEF WholeIn, WholeAt, Begins, Newlines
    <3> QED BY <3>1, <3>2
  <2>5. Closed(Stream)'
    BY <1>3, <1>4, <1>5, <2>2, WholeLine DEF Closed
  <2>6. Accounts(D)'
    BY <1>2, <2>4, <2>5 DEF Accounts
  <2>7. D \in SUBSET (1 .. written' + 1)
    BY <1>1, <1>2, <1>3
  <2>8. Bounded'
    BY <1>2, <2>3, <2>6, <2>7 DEF Bounded
  <2>9. Reading'
    BY <1>2, <1>4, <1>6, <1>7, <2>1 DEF Reading
  <2> QED BY <1>2, <1>8, <2>8, <2>9 DEF LossInv
<1>9. CASE ~initialized
  <2>1. FromStart
    BY <1>2, <1>9 DEF LossInv
  <2>2. Len(file) = 3 * written /\ Len(file') = 3 * n
    BY <1>1, <1>3, <1>6, <1>7, <2>1 DEF FromStart
  <2>3. ASSUME NEW k \in 1 .. n, NEW j \in 1 .. 3 PROVE file'[3 * (k - 1) + j] = <<k, j>>
    <3>1. CASE k = n
      <4>1. 3 * (k - 1) + j = Len(file) + j
        BY <1>1, <1>3, <2>2, <3>1
      <4> QED BY <1>6, <1>7, <3>1, <4>1
    <3>2. CASE k # n
      <4>1. k \in 1 .. written
        BY <1>1, <1>3, <3>2
      <4>2. 3 * (k - 1) + j \in 1 .. Len(file)
        BY <1>3, <2>2, <4>1
      <4>3. file[3 * (k - 1) + j] = <<k, j>>
        BY <2>1, <4>1 DEF FromStart
      <4> QED BY <1>7, <4>2, <4>3
    <3> QED BY <3>1, <3>2
  <2>4. step' = "init" => \E m \in 0 .. written' : size' = 3 * m
    BY <1>1, <1>2, <1>3, <2>1 DEF FromStart
  <2>5. FromStart'
    BY <1>2, <2>1, <2>2, <2>3, <2>4 DEF FromStart
  <2> QED BY <1>2, <1>9, <2>5 DEF LossInv
<1> QED BY <1>8, <1>9

\* Before the offset is initialized the file is what Xray wrote.
LEMMA FromStartWhole ==
  ASSUME TailerTypeOK, FromStart
  PROVE  Closed(file) /\ \A n \in 1 .. written : WholeAt(file, 3 * (n - 1) + 1, n)
<1>1. file \in Text /\ written \in Nat /\ Len(file) = 3 * written
  BY DEF TailerTypeOK, Text, FromStart
<1>2. \A n \in 1 .. written, k \in 1 .. 3 : file[3 * (n - 1) + k] = <<n, k>>
  BY DEF FromStart
<1>3. Closed(file)
  <2>1. CASE written = 0
    BY <1>1, <2>1 DEF Closed, Text
  <2>2. CASE written # 0
    <3>1. written \in 1 .. written /\ 3 * (written - 1) + 3 = Len(file)
      BY <1>1, <2>2
    <3>2. file[3 * (written - 1) + 3] = <<written, 3>>
      BY <1>2, <3>1
    <3> QED BY <3>1, <3>2 DEF Closed, EndOfLine
  <2> QED BY <2>1, <2>2
<1>4. ASSUME NEW n \in 1 .. written PROVE WholeAt(file, 3 * (n - 1) + 1, n)
  <2>1. PICK i : i = 3 * (n - 1) + 1
    OBVIOUS
  <2>2. i \in Nat /\ i \in 1 .. Len(file) - 2 /\ i + 1 = 3 * (n - 1) + 2 /\ i + 2 = 3 * (n - 1) + 3
    BY <1>1, <2>1
  <2>3. file[i] = <<n, 1>> /\ file[i + 1] = <<n, 2>> /\ file[i + 2] = <<n, 3>>
    BY <1>2, <2>1, <2>2
  <2>4. Begins(file, i)
    <3>1. CASE n = 1
      BY <2>1, <3>1 DEF Begins
    <3>2. CASE n # 1
      <4>1. n - 1 \in 1 .. written /\ 3 * ((n - 1) - 1) + 3 = i - 1 /\ i - 1 \in 1 .. Len(file)
        BY <1>1, <2>1, <3>2
      <4>2. file[3 * ((n - 1) - 1) + 3] = <<n - 1, 3>>
        BY <1>2, <4>1
      <4> QED BY <1>1, <4>1, <4>2, InText DEF Begins, Newlines, EndOfLine
    <3> QED BY <3>1, <3>2
  <2>5. WholeAt(file, i, n)
    BY <1>1, <2>2, <2>3, <2>4, WholeIntro
  <2> QED BY <2>1, <2>5
<1> QED BY <1>3, <1>4

LEMMA InitOffsetLoss == OnceInv /\ LossInv /\ InitOffset => LossInv'
<1> SUFFICES ASSUME OnceInv, LossInv, harm' = 0, InitOffset PROVE LossInv'
  BY DEF LossInv
<1>1. /\ UNCHANGED <<file, written, recorded, partial, size, chunk, parsed, collected>>
      /\ truncations' = truncations /\ harm' = harm /\ initialized' = TRUE
      /\ step = "init" /\ step' = "open"
  BY DEF InitOffset, dbVars, readVars
<1>2. chunk = <<>> /\ file \in Text /\ size \in Nat /\ written \in Nat /\ TailerTypeOK
  BY <1>1 DEF OnceInv, Placed, TailerTypeOK, Text
<1>3. ~initialized /\ FromStart
  BY <1>1 DEF OnceInv, Placed, LossInv
<1>4. PICK m \in 0 .. written : size = 3 * m
  BY <1>1, <1>3 DEF FromStart
<1>5. /\ Len(file) = 3 * written /\ size <= Len(file)
      /\ truncations = 0 /\ metaOffset = NoMeta /\ partial = <<>> /\ parsed = <<>>
  BY <1>2, <1>3, <1>4 DEF FromStart
<1>6. offset' = size /\ dropped' = dropped \union LinesIn(Slice(0, size))
  BY <1>2, <1>5 DEF InitOffset, NoMeta
<1>7. PICK b : b = CutOf(file, size, Len(file))
  OBVIOUS
<1>8. b \in Text /\ After(file, size, b) /\ Stream' = b
  <2>1. b \in Text /\ After(file, size, b)
    BY <1>2, <1>5, <1>7, InText, CutType, TailIs
  <2>2. Stream' = (partial \o chunk) \o b
    BY <1>1, <1>6, <1>7, StreamNext
  <2> QED BY <1>2, <1>5, <2>1, <2>2, JoinNothing
<1>9. Closed(Stream)'
  BY <1>2, <1>3, <1>8, FromStartWhole, ClosedAfter DEF Closed
<1>10. ASSUME NEW n \in 1 .. written PROVE Kept(n)' \/ WholeIn(Stream, n)'
  <2>1. PICK i : i = 3 * (n - 1) + 1
    OBVIOUS
  <2>2. WholeAt(file, i, n) /\ i \in 1 .. Len(file) /\ file[i] = <<n, 1>>
    BY <1>2, <1>3, <2>1, FromStartWhole, WholeParts
  <2>3. CASE n <= m
    <3>1. PICK c : c = CutOf(file, 0, size)
      OBVIOUS
    <3>2. IsCut(c, file, 0, size) /\ 0 + size <= Len(file)
      BY <1>2, <1>5, <3>1, CutIs
    <3>3. c \in Text /\ Len(c) = size /\ \A x \in 1 .. Len(c) : c[x] = file[0 + x]
      BY <3>2 DEF IsCut
    <3>4. i \in 1 .. size /\ 0 + i = i
      BY <1>4, <2>1, <2>3
    <3>5. c[i] = <<n, 1>> /\ i \in DOMAIN c
      BY <2>2, <3>3, <3>4, InText
    <3>6. n \in LinesIn(c)
      BY <3>5 DEF LinesIn, Range
    <3> QED BY <1>6, <3>1, <3>6, Cuts DEF Kept
  <2>4. CASE ~(n <= m)
    <3>1. i > size
      BY <1>4, <2>1, <2>4
    <3>2. WholeAt(b, i - size, n) /\ i - size \in Nat
      BY <1>2, <1>8, <2>2, <3>1, WholeAfter
    <3> QED BY <1>8, <3>2 DEF WholeIn, WholeAt, Begins, Newlines
  <2> QED BY <2>3, <2>4
<1>11. Accounts({})'
  BY <1>1, <1>9, <1>10 DEF Accounts
<1>12. Bounded'
  <2>1. Cardinality({}) = 0
    BY FS_EmptySet
  <2>2. Cardinality({}) <= 2 * truncations' /\ {} \in SUBSET (1 .. written' + 1)
    BY <1>1, <1>5, <2>1
  <2> QED BY <1>11, <2>2 DEF Bounded
<1>13. Reading'
  BY <1>1, <1>2, <1>5, <1>6 DEF Reading
<1> QED BY <1>1, <1>12, <1>13 DEF LossInv

LEMMA AfterJoin ==
  ASSUME NEW a \in Text, NEW b \in Text
  PROVE  /\ After(a \o b, Len(a), b)
         /\ \A l, t : t \in Text /\ After(a, l, t) => After(a \o b, l, t \o b)
<1>1. PICK s : s = a \o b
  OBVIOUS
<1>2. /\ Len(s) = Len(a) + Len(b) /\ Len(a) \in Nat /\ Len(b) \in Nat
      /\ \A i \in 1 .. Len(a) : s[i] = a[i]
      /\ \A i \in 1 .. Len(b) : s[Len(a) + i] = b[i]
  BY <1>1, JoinIs, InText
<1>3. After(s, Len(a), b)
  BY <1>2 DEF After
<1>4. ASSUME NEW l, NEW t, t \in Text, After(a, l, t) PROVE After(s, l, t \o b)
  <2>1. l \in 0 .. Len(a) /\ Len(t) = Len(a) - l /\ \A i \in 1 .. Len(t) : t[i] = a[l + i]
    BY <1>4 DEF After
  <2>2. PICK u : u = t \o b
    OBVIOUS
  <2>3. /\ Len(u) = Len(t) + Len(b)
        /\ \A i \in 1 .. Len(t) : u[i] = t[i]
        /\ \A i \in 1 .. Len(b) : u[Len(t) + i] = b[i]
    BY <1>4, <2>2, JoinIs
  <2>4. ASSUME NEW i \in 1 .. Len(u) PROVE u[i] = s[l + i]
    <3>1. CASE i \in 1 .. Len(t)
      <4>1. l + i \in 1 .. Len(a)
        BY <1>2, <2>1, <3>1
      <4> QED BY <1>2, <2>1, <2>3, <3>1, <4>1
    <3>2. CASE i \notin 1 .. Len(t)
      <4>1. PICK j \in 1 .. Len(b) : i = Len(t) + j
        <5>1. i - Len(t) \in 1 .. Len(b) /\ i = Len(t) + (i - Len(t))
          BY <1>2, <2>1, <2>3, <3>2
        <5> QED BY <5>1
      <4>2. l + i = Len(a) + j
        BY <1>2, <2>1, <4>1
      <4>3. u[i] = b[j] /\ s[l + i] = b[j]
        BY <1>2, <2>3, <4>1, <4>2
      <4> QED BY <4>3
    <3> QED BY <3>1, <3>2
  <2>5. l \in 0 .. Len(s) /\ Len(u) = Len(s) - l
    BY <1>2, <2>1, <2>3
  <2> QED BY <2>2, <2>4, <2>5 DEF After
<1> QED BY <1>1, <1>3, <1>4

\* Of what precedes the offset a truncation forgets the line that is cut there,
\* and keeps of the lines before it all but the one that is first.
LEMMA TruncateLoss == OnceInv /\ LossInv /\ Truncate => LossInv'
<1> SUFFICES ASSUME OnceInv, LossInv, harm' = 0, Truncate PROVE LossInv'
  BY DEF LossInv
<1>1. /\ UNCHANGED <<written, recorded, initialized, size, chunk, parsed, collected, harm>>
      /\ file' = <<>> /\ offset' = 0 /\ partial' = <<>>
      /\ dropped' = dropped \union LinesIn(Beyond(offset))
      /\ truncations' = truncations + 1 /\ step = "truncate" /\ step' = "reset_meta"
  BY DEF Truncate, dbVars, readVars
<1>2. initialized /\ Reading /\ Bounded /\ parsed = <<>>
  <2>1. initialized
    BY <1>1 DEF OnceInv, Placed
  <2> QED BY <1>1, <2>1 DEF LossInv, Reading
<1>3. PICK a : a = partial \o chunk
  OBVIOUS
<1>4. PICK b : b = Beyond(offset)
  OBVIOUS
<1>5. /\ partial \in Text /\ chunk \in Text /\ a \in Text /\ b \in Text
      /\ Stream \in Text /\ Stream = a \o b
  BY <1>3, <1>4, StreamIs DEF OnceInv
<1>6. Stream' = chunk
  <2>1. <<>> \in Text /\ Len(<<>>) = 0 /\ 0 \in Nat
    BY DEF Text
  <2>2. PICK c : c = CutOf(<<>>, 0, Len(<<>>))
    OBVIOUS
  <2>3. c \in Text /\ Len(c) = 0
    <3>1. c \in Text /\ After(<<>>, 0, c)
      BY <2>1, <2>2, CutType, TailIs
    <3> QED BY <2>1, <3>1 DEF After
  <2>4. c = <<>>
    BY <2>3 DEF Text
  <2>5. Stream' = (<<>> \o chunk) \o <<>>
    BY <1>1, <2>2, <2>4, StreamNext
  <2> QED BY <1>5, <2>5, JoinNothing
<1>7. PICK x \in 1 .. written + 1 : \A n \in 1 .. written : WholeAt(Stream, 1, n) => n = x
  <2>1. written \in Nat
    BY DEF OnceInv, TailerTypeOK
  <2>2. ASSUME NEW n \in 1 .. written, WholeAt(Stream, 1, n) PROVE Stream[1] = <<n, 1>>
    <3>1. Stream \in Text
      BY <1>5
    <3> QED BY <2>2, <3>1, WholeParts
  <2>3. CASE \E n \in 1 .. written : WholeAt(Stream, 1, n)
    <3>1. PICK n \in 1 .. written : WholeAt(Stream, 1, n)
      BY <2>3
    <3>2. \A k \in 1 .. written : WholeAt(Stream, 1, k) => k = n
      BY <2>2, <3>1
    <3>3. n \in 1 .. written + 1
      BY <2>1
    <3> QED BY <3>2, <3>3
  <2>4. CASE ~\E n \in 1 .. written : WholeAt(Stream, 1, n)
    <3>1. written + 1 \in 1 .. written + 1
      BY <2>1
    <3> QED BY <2>4, <3>1
  <2> QED BY <2>3, <2>4
<1>8. PICK D \in SUBSET (1 .. written + 1) : Cardinality(D) <= 2 * truncations /\ Accounts(D)
  BY <1>2 DEF Bounded
<1>9. PICK E : E = D \union {x, written + 1}
  OBVIOUS
<1>10. E \in SUBSET (1 .. written + 1) /\ Cardinality(E) <= 2 * truncations'
  <2>1. written \in Nat /\ truncations \in Nat
    BY DEF OnceInv, TailerTypeOK
  <2>2. written + 1 \in 1 .. written + 1
    BY <2>1
  <2>3. IsFiniteSet(1 .. written + 1)
    BY <2>1, <2>2, FS_Interval
  <2>4. IsFiniteSet(D) /\ Cardinality(D) \in Nat
    BY <2>3, FS_Subset, FS_CardinalityType
  <2>5. PICK F : F = D \union {x}
    OBVIOUS
  <2>6. IsFiniteSet(F) /\ Cardinality(F) \in Nat /\ Cardinality(F) <= Cardinality(D) + 1
    <3>1. IsFiniteSet(F)
      BY <2>4, <2>5, FS_AddElement
    <3>2. Cardinality(F) = Cardinality(D) \/ Cardinality(F) = Cardinality(D) + 1
      BY <2>4, <2>5, FS_AddElement
    <3>3. Cardinality(F) \in Nat
      BY <3>1, FS_CardinalityType
    <3> QED BY <2>4, <3>1, <3>2, <3>3
  <2>7. E = F \union {written + 1}
    BY <1>9, <2>5
  <2>8. Cardinality(E) \in Nat /\ Cardinality(E) <= Cardinality(F) + 1
    <3>1. IsFiniteSet(E)
      BY <2>6, <2>7, FS_AddElement
    <3>2. Cardinality(E) = Cardinality(F) \/ Cardinality(E) = Cardinality(F) + 1
      BY <2>6, <2>7, FS_AddElement
    <3>3. Cardinality(E) \in Nat
      BY <3>1, FS_CardinalityType
    <3> QED BY <2>6, <3>2, <3>3
  <2>9. Cardinality(E) <= 2 * truncations'
    BY <1>1, <1>8, <2>1, <2>4, <2>6, <2>8
  <2> QED BY <1>9, <2>2, <2>9
<1>11. ASSUME NEW n \in 1 .. written PROVE Kept(n)' \/ n \in E \/ WholeIn(Stream, n)'
  <2>1. Kept(n) => Kept(n)'
    BY <1>1 DEF Kept
  <2>2. ASSUME NEW i, WholeAt(Stream, i, n) PROVE Kept(n)' \/ n \in E \/ WholeIn(chunk, n)
    <3>1. i \in Nat /\ i + 2 \in 1 .. Len(Stream) /\ Stream[i + 2] = <<n, 3>>
      BY <1>5, <2>2, WholeParts
    <3>2. /\ Len(Stream) = Len(a) + Len(b) /\ Len(a) \in Nat /\ Len(b) \in Nat
          /\ Len(partial) \in Nat /\ Len(chunk) \in Nat
          /\ \A k \in 1 .. Len(b) : Stream[Len(a) + k] = b[k]
      BY <1>5, JoinIs, InText
    <3>3. CASE i = 1
      BY <1>7, <1>9, <2>2, <3>3
    <3>4. CASE i + 2 > Len(a)
      <4>1. PICK k \in 1 .. Len(b) : i + 2 = Len(a) + k
        <5>1. (i + 2) - Len(a) \in 1 .. Len(b) /\ i + 2 = Len(a) + ((i + 2) - Len(a))
          BY <3>1, <3>2, <3>4
        <5> QED BY <5>1
      <4>2. b[k] = <<n, 3>> /\ k \in DOMAIN b
        BY <1>5, <3>1, <3>2, <4>1, InText
      <4>3. n \in LinesIn(b)
        BY <4>2 DEF LinesIn, Range
      <4> QED BY <1>1, <1>4, <4>3 DEF Kept
    <3>5. CASE i # 1 /\ i + 2 <= Len(a)
      <4>1. WholeAt(a, i, n)
        BY <1>5, <2>2, <3>5, WholeJoin
      <4>2. i - 1 \in Newlines(a) /\ i - 1 \in 1 .. Len(a)
        BY <1>5, <3>5, <4>1, WholeParts, NewlinesIn DEF Begins
      <4>3. i - 1 > Len(partial)
        <5>1. Newlines(partial) = {}
          BY DEF OnceInv, Distinct
        <5>2. ~(i - 1 <= Len(partial))
          BY <1>3, <1>5, <4>2, <5>1, JoinNewlines
        <5> QED BY <3>1, <3>2, <5>2
      <4>4. i > Len(partial) /\ i - Len(partial) \in Nat
        BY <3>1, <3>2, <4>3
      <4>5. After(a, Len(partial), chunk)
        BY <1>3, <1>5, AfterJoin
      <4>6. WholeAt(chunk, i - Len(partial), n)
        BY <1>5, <4>1, <4>4, <4>5, WholeAfter
      <4> QED BY <4>4, <4>6 DEF WholeIn
    <3>6. i = 1 \/ i + 2 > Len(a) \/ (i # 1 /\ i + 2 <= Len(a))
      BY <3>1, <3>2
    <3> QED BY <3>3, <3>4, <3>5, <3>6
  <2>3. Kept(n) \/ n \in D \/ WholeIn(Stream, n)
    BY <1>8 DEF Accounts
  <2>4. WholeIn(chunk, n) => WholeIn(Stream, n)'
    BY <1>6 DEF WholeIn, WholeAt, Begins, Newlines
  <2> QED BY <1>9, <2>1, <2>2, <2>3, <2>4 DEF WholeIn
<1>12. Bounded'
  <2>1. Accounts(E)'
    BY <1>1, <1>9, <1>11 DEF Accounts
  <2> QED BY <1>1, <1>10, <2>1 DEF Bounded
<1>13. Reading'
  <2>1. Len(file') = 0
    BY <1>1, JoinNothing
  <2> QED BY <1>1, <1>2, <2>1 DEF Reading
<1> QED BY <1>1, <1>2, <1>12, <1>13 DEF LossInv

\* What parseChunk cuts from the stream it parses, up to its last newline.
LEMMA PersistLoss == OnceInv /\ LossInv /\ Persist => LossInv'
<1> SUFFICES ASSUME OnceInv, LossInv, harm' = 0, Persist PROVE LossInv'
  BY DEF LossInv
<1>1. /\ UNCHANGED <<file, written, recorded, initialized, offset, size, collected>>
      /\ UNCHANGED <<dropped, truncations, harm>>
      /\ parsed' = Parse(partial \o chunk) /\ partial' = Rest(partial \o chunk)
      /\ chunk' = <<>> /\ step = "persist" /\ step' = "append"
  BY DEF Persist, historyVars
<1>2. initialized /\ Reading /\ Bounded /\ parsed = <<>>
  <2>1. initialized
    BY <1>1 DEF OnceInv, Placed
  <2> QED BY <1>1, <2>1 DEF LossInv, Reading
<1>3. PICK a : a = partial \o chunk
  OBVIOUS
<1>4. PICK b : b = CutOf(file, offset, Len(file))
  OBVIOUS
<1>5. a \in Text /\ b \in Text /\ Stream \in Text /\ Stream = a \o b
  BY <1>3, <1>4, StreamIs DEF OnceInv
<1>6. PICK r : r = Rest(a)
  OBVIOUS
<1>7. PICK l \in 0 .. Len(a) : (l = 0 \/ l \in Newlines(a)) /\ r \in Text /\ After(a, l, r)
  BY <1>5, <1>6, RestIs
<1>8. Stream' = r \o b
  <2>1. Stream' = (r \o <<>>) \o b
    BY <1>1, <1>3, <1>4, <1>6, StreamNext
  <2> QED BY <1>7, <2>1, JoinNothing
<1>9. r \o b \in Text /\ After(Stream, l, r \o b)
  <2>1. a \in Text /\ b \in Text /\ r \in Text /\ After(a, l, r) /\ Stream = a \o b
    BY <1>5, <1>7
  <2>2. r \o b \in Text
    BY <2>1, JoinIs
  <2> QED BY <2>1, <2>2, AfterJoin
<1>10. ASSUME NEW n \in 1 .. written, NEW i, WholeAt(Stream, i, n)
       PROVE  EventOf(n) \in Range(parsed') \/ WholeIn(r \o b, n)
  <2>1. /\ i \in Nat /\ i \in 1 .. Len(Stream)
        /\ Stream[i] = <<n, 1>> /\ Stream[i + 1] = <<n, 2>>
    <3>1. Stream \in Text
      BY <1>5
    <3> QED BY <1>10, <3>1, WholeParts
  <2>2. CASE i > l
    <3>1. i - l \in Nat
      BY <1>7, <2>1, <2>2
    <3>2. WholeAt(r \o b, i - l, n)
      BY <1>5, <1>9, <1>10, <2>2, WholeAfter
    <3> QED BY <3>1, <3>2 DEF WholeIn
  <2>3. CASE ~(i > l)
    <3>1. Len(a) \in Nat /\ \A k \in 1 .. Len(a) : Stream[k] = a[k]
      BY <1>5, JoinIs, InText
    <3>2. l \in 1 .. Len(a) /\ l \in Newlines(a) /\ i <= l
      BY <1>7, <2>1, <2>3, <3>1
    <3>3. Stream[l] = a[l] /\ a[l][2] = 3
      BY <3>1, <3>2 DEF Newlines, EndOfLine
    <3>4. l # i /\ l # i + 1
      BY <2>1, <3>3
    <3>5. i + 2 <= Len(a)
      BY <2>1, <3>1, <3>2, <3>4
    <3>6. WholeAt(a, i, n)
      BY <1>5, <1>10, <3>5, WholeJoin
    <3>7. \E k \in DOMAIN Parse(a) : Parse(a)[k] = EventOf(n)
      BY <1>5, <3>6, WholeParsed
    <3> QED BY <1>1, <1>3, <3>7 DEF Range
  <2> QED BY <2>2, <2>3
<1>11. PICK D \in SUBSET (1 .. written + 1) : Cardinality(D) <= 2 * truncations /\ Accounts(D)
  BY <1>2 DEF Bounded
<1>12. ASSUME NEW n \in 1 .. written PROVE Kept(n)' \/ n \in D \/ WholeIn(Stream, n)'
  <2>1. Range(parsed) = {}
    BY <1>2 DEF Range
  <2>2. Kept(n) => Kept(n)'
    BY <1>1, <2>1 DEF Kept
  <2>3. EventOf(n) \in Range(parsed') => Kept(n)'
    BY <1>1 DEF Kept, EventOf
  <2>4. WholeIn(r \o b, n) => WholeIn(Stream, n)'
    BY <1>8 DEF WholeIn, WholeAt, Begins, Newlines
  <2>5. Kept(n) \/ n \in D \/ WholeIn(Stream, n)
    BY <1>11 DEF Accounts
  <2> QED BY <1>10, <2>2, <2>3, <2>4, <2>5 DEF WholeIn
<1>13. Closed(Stream)' \/ written' + 1 \in D
  <2>1. Closed(Stream) => Closed(r \o b)
    BY <1>5, <1>9, ClosedAfter
  <2> QED BY <1>1, <1>8, <1>11, <2>1 DEF Accounts, Closed
<1>14. Bounded'
  <2>1. Accounts(D)'
    BY <1>1, <1>12, <1>13 DEF Accounts
  <2> QED BY <1>1, <1>11, <2>1 DEF Bounded
<1>15. Reading'
  BY <1>1, <1>2 DEF Reading
<1> QED BY <1>1, <1>2, <1>14, <1>15 DEF LossInv

LEMMA AppendLoss == OnceInv /\ LossInv /\ AppendEvent => LossInv'
<1> SUFFICES ASSUME OnceInv, LossInv, harm' = 0, AppendEvent PROVE LossInv'
  BY DEF LossInv
<1>1. /\ UNCHANGED <<file, written, recorded, initialized, offset, partial, size, chunk>>
      /\ UNCHANGED <<dropped, truncations, harm>>
      /\ parsed # <<>> /\ collected' = Append(collected, Head(parsed)) /\ parsed' = Tail(parsed)
      /\ step = "append" /\ step' \in {"append", "flush"}
  BY DEF AppendEvent, dbVars, fieldVars, historyVars
<1>2. initialized /\ Reading /\ Bounded /\ chunk = <<>>
  <2>1. initialized
    BY <1>1 DEF OnceInv, Placed
  <2> QED BY <1>1, <2>1 DEF LossInv, Reading
<1>3. collected \in Seq(LineEvents) /\ parsed \in Seq(LineEvents)
  BY DEF OnceInv, TailerTypeOK
<1>4. Range(collected) \union Range(parsed) \subseteq Range(collected') \union Range(parsed')
  <2>1. ASSUME NEW i \in DOMAIN collected PROVE collected[i] \in Range(collected')
    <3>1. i \in DOMAIN collected' /\ collected'[i] = collected[i]
      BY <1>1, <1>3
    <3> QED BY <3>1 DEF Range
  <2>2. ASSUME NEW i \in DOMAIN parsed
        PROVE  parsed[i] \in Range(collected') \union Range(parsed')
    <3>1. CASE i = 1
      <4>1. Len(collected) + 1 \in DOMAIN collected' /\ collected'[Len(collected) + 1] = parsed[1]
        BY <1>1, <1>3
      <4> QED BY <3>1, <4>1 DEF Range
    <3>2. CASE i # 1
      <4>1. i - 1 \in DOMAIN parsed' /\ parsed'[i - 1] = parsed[i]
        BY <1>1, <1>3, <3>2
      <4> QED BY <4>1 DEF Range
    <3> QED BY <3>1, <3>2
  <2> QED BY <2>1, <2>2 DEF Range
<1>5. Bounded'
  <2>1. \A n \in 1 .. written : Kept(n) => Kept(n)'
    BY <1>1, <1>4 DEF Kept, EventOf
  <2>2. Stream' = Stream
    BY <1>1 DEF Stream, Beyond, Slice
  <2> QED BY <1>1, <1>2, <2>1, <2>2, BoundedKeeps
<1>6. Reading'
  BY <1>1, <1>2 DEF Reading
<1> QED BY <1>1, <1>2, <1>5, <1>6 DEF LossInv

LEMMA FlushLoss == OnceInv /\ LossInv /\ FlushBatch => LossInv'
<1> SUFFICES ASSUME OnceInv, LossInv, harm' = 0, FlushBatch PROVE LossInv'
  BY DEF LossInv
<1>1. /\ UNCHANGED <<file, written, metaOffset, initialized, offset, partial, size, chunk>>
      /\ UNCHANGED <<parsed, dropped, truncations, harm>>
      /\ recorded' = [e \in LineEvents |-> recorded[e] + Occurrences(e)]
      /\ \/ step = "flush" /\ step' = "append"
         \/ step = "select" /\ step' = "select"
  BY DEF FlushBatch, fieldVars, readVars, historyVars, Resume
<1>2. CASE initialized
  <2>1. Reading /\ Bounded
    BY <1>1, <1>2 DEF LossInv
  <2>2. ASSUME NEW n \in 1 .. written, Kept(n) PROVE Kept(n)'
    <3>1. EventOf(n) \in LineEvents
      <4>1. n \in Lines
        BY TailerConstants DEF OnceInv, TailerTypeOK, Lines
      <4> QED BY <4>1 DEF EventOf, LineEvents
    <3>2. recorded'[EventOf(n)] = recorded[EventOf(n)] + Occurrences(EventOf(n))
      BY <1>1, <3>1
    <3>3. /\ recorded[EventOf(n)] \in Nat /\ Occurrences(EventOf(n)) \in Nat
          /\ EventOf(n) \in Range(collected) => Occurrences(EventOf(n)) > 0
      BY <3>1, OccurrencesType DEF OnceInv, TailerTypeOK, Range
    <3>4. CASE recorded[EventOf(n)] > 0 \/ EventOf(n) \in Range(collected)
      <4>1. recorded'[EventOf(n)] > 0
        BY <3>2, <3>3, <3>4
      <4> QED BY <4>1 DEF Kept, EventOf
    <3>5. CASE EventOf(n) \in Range(parsed) \/ n \in dropped
      BY <1>1, <3>5 DEF Kept, EventOf
    <3> QED BY <2>2, <3>4, <3>5 DEF Kept
  <2>3. Bounded'
    <3>1. Stream' = Stream
      BY <1>1 DEF Stream, Beyond, Slice
    <3> QED BY <1>1, <2>1, <2>2, <3>1, BoundedKeeps
  <2>4. Reading'
    BY <1>1, <2>1 DEF Reading
  <2> QED BY <1>1, <1>2, <2>3, <2>4 DEF LossInv
<1>3. CASE ~initialized
  <2>1. FromStart
    BY <1>1, <1>3 DEF LossInv
  <2>2. FromStart'
    BY <1>1, <2>1 DEF FromStart
  <2> QED BY <1>1, <1>3, <2>2 DEF LossInv
<1> QED BY <1>2, <1>3

LEMMA HarmLoss == OnceInv /\ (ReadFails \/ AgentStops \/ LogLost) => LossInv'
<1> SUFFICES ASSUME OnceInv, ReadFails \/ AgentStops \/ LogLost PROVE LossInv'
  OBVIOUS
<1>1. harm \in Nat /\ harm' = harm + 1
  BY DEF OnceInv, TailerTypeOK, ReadFails, AgentStops, LogLost, Fault
<1>2. harm' # 0
  BY <1>1
<1> QED BY <1>2 DEF LossInv

LEMMA LossInit == TailerInit => LossInv
<1> SUFFICES ASSUME TailerInit PROVE LossInv
  OBVIOUS
<1>1. FromStart
  <2>1. file = <<>> /\ written = 0
    BY DEF TailerInit
  <2>2. Len(file) = 3 * written /\ 1 .. written = {}
    BY <2>1
  <2> QED BY <2>2 DEF TailerInit, FromStart
<1> QED BY <1>1 DEF TailerInit, LossInv

LEMMA LossStep == OnceInv /\ LossInv /\ [TailerNext]_tailerVars => LossInv'
BY QuietLoss, OpenLoss, XrayLoss, InitOffsetLoss, TruncateLoss, PersistLoss, AppendLoss,
   FlushLoss, HarmLoss DEF TailerNext, Read, World

LEMMA WholeHas ==
  ASSUME NEW text \in Text, NEW i, NEW n \in Lines, WholeAt(text, i, n)
  PROVE  Has(text, n)
<1>1. /\ i \in 1 .. Len(text) /\ i + 1 \in 1 .. Len(text) /\ i + 2 \in 1 .. Len(text)
      /\ text[i] = <<n, 1>> /\ text[i + 1] = <<n, 2>> /\ text[i + 2] = <<n, 3>> /\ i \in Nat
  BY WholeParts
<1>2. PICK c : c = SubSeq(text, i, i + 2)
  OBVIOUS
<1>3. Len(text) \in Nat /\ text \in Seq(Parts)
  BY InText DEF Text
<1>4. c \in Text /\ Len(c) = 3 /\ \A k \in 1 .. 3 : c[k] = text[i + k - 1]
  BY <1>1, <1>2, <1>3 DEF Text
<1>5. PICK l : l = LineOf(n)
  OBVIOUS
<1>6. l \in Text /\ Len(l) = 3 /\ \A k \in 1 .. 3 : l[k] = <<n, k>>
  BY <1>5, LineIs
<1>7. \A k \in 1 .. 3 : text[i + k - 1] = <<n, k>>
  BY DEF WholeAt
<1>8. c = l
  <2>1. Len(c) = Len(l) /\ \A k \in 1 .. Len(c) : c[k] = l[k]
    BY <1>4, <1>6, <1>7
  <2> QED BY <1>4, <1>6, <2>1, SameText
<1>9. i \in 1 .. Len(text) - 2
  BY DEF WholeAt
<1> QED BY <1>2, <1>5, <1>8, <1>9 DEF Has

\* While nothing but flushes fails, a line that Xray wrote is on record, on its
\* way there, or dropped on purpose, but for two by each truncation of
\* truncateScratchLog: the line that began before the bytes read, and the next
\* one that Xray writes, which then continues a line that is cut at their end.
THEOREM LossBounded == TailerSpec => []LossIsBounded
<1>1. ASSUME OnceInv, LossInv PROVE LossIsBounded
  <2> SUFFICES ASSUME harm = 0, initialized PROVE Cardinality(Lost) <= 2 * truncations
    BY DEF LossIsBounded
  <2>1. PICK D \in SUBSET (1 .. written + 1) : Cardinality(D) <= 2 * truncations /\ Accounts(D)
    BY <1>1 DEF LossInv, Bounded
  <2>2. written \in 0 .. MaxLines /\ truncations \in Nat
    BY <1>1 DEF OnceInv, TailerTypeOK
  <2>3. ASSUME NEW n \in Lost PROVE n \in D
    <3>1. /\ n \in 1 .. written /\ recorded[EventOf(n)] = 0
          /\ n \notin OnTheWay /\ n \notin dropped
      BY DEF Lost
    <3>2. n \in Lines
      BY <2>2, <3>1, TailerConstants DEF Lines
    <3>3. ~Kept(n)
      BY <3>1, <3>2 DEF Kept, OnTheWay
    <3>4. ~WholeIn(Stream, n)
      <4>1. ~Has(Stream, n)
        BY <3>1, <3>2 DEF OnTheWay, Stream
      <4>2. Stream \in Text
        BY <1>1, StreamIs DEF OnceInv
      <4> QED BY <3>2, <4>1, <4>2, WholeHas DEF WholeIn
    <3> QED BY <2>1, <3>1, <3>3, <3>4 DEF Accounts
  <2>4. IsFiniteSet(D)
    <3>1. IsFiniteSet(1 .. written + 1)
      BY <2>2, FS_Interval
    <3> QED BY <3>1, FS_Subset
  <2>5. Cardinality(Lost) <= Cardinality(D) /\ Cardinality(Lost) \in Nat /\ Cardinality(D) \in Nat
    <3>1. Lost \subseteq D
      BY <2>3
    <3> QED BY <2>4, <3>1, FS_Subset, FS_CardinalityType
  <2> QED BY <2>1, <2>2, <2>5
<1> QED BY <1>1, OnceInit, OnceStep, LossInit, LossStep, PTL DEF TailerSpec
=============================================================================
